---------------------------- MODULE Spec2Model ----------------------------
(***************************************************************************)
(* A model of the termux-x11 input/clipboard client:                       *)
(*   - app/src/main/cpp/lorie/android.c: the XCB connection, the protocol  *)
(*     encoder (the send calls) and the clipboard exchange of             *)
(*     handleXEvents;                                                      *)
(*   - app/src/main/java/com/termux/x11/input/TouchInputHandler.java: the  *)
(*     coordinate mapping, the cursor and the gesture classifier.          *)
(* The two halves share no state; SpecNative and SpecTouch run one half    *)
(* each and leave the other half's variables unchanged.                    *)
(***************************************************************************)
EXTENDS Integers, Sequences, FiniteSets, TLC

VARIABLES
    \* ---- android.c: file-scope statics (lines 177-183)
    conn,                   \* xcb_connection_t* conn; NULL or a connection object
    xfixes_first_event,
    err_ctx,                \* xcb_errors_context_t* err_ctx; NULL or a context
    win,
    prop_sel,
    atom_clipboard,
    clipboard_sync_enabled,
    \* ---- the heap objects those pointers name, and the server behind them
    conns,                  \* connection objects: state, server, queues
    ctxs,                   \* error-decoding contexts: "none" | "live" | "freed"
    \* ---- the two threads
    uiPc,                   \* position of the UI-driven thread inside connect
    new_conn,               \* connect's local new_conn
    pollPc,                 \* position of the poll thread inside handleXEvents
    data_size,              \* handleXEvents' local data_size
    fetch,                  \* connections the clipboard fetch in flight has used
    \* ---- what the last step did (observations, reset by every step)
    call,                   \* the operation the last step belongs to
    wire,                   \* requests handed to the transport by the last step
    flushes,                \* number of xcb_flush calls made by the last step
    log,                    \* lines the last step logged
    delivered,              \* text the last step gave to setClipboardText
    fault,                  \* a NULL, freed or disconnected handle was used
    replyErrors,            \* protocol errors the server has answered requests with
    \* ---- RenderData, shared by the handler and its nested touchpad handler
    screenWidth,
    screenHeight,
    imageWidth,
    imageHeight,
    transform,              \* Matrix transform: its scale (sx, sy)
    cursorPosition,         \* PointF mCursorPosition
    \* ---- TouchInputHandler: one record of fields per handler instance
    handler,
    mHMListener,            \* HardwareMouseListener: savedBS
    mDexListener,           \* DexListener: savedBS, mIsDragging, mIsScrolling
    \* ---- what the last step of the Java half did
    tcall,                  \* the entry point called and its arguments
    out                     \* calls made on the strategy, the injector and the stub

nativeVars ==
    <<conn, xfixes_first_event, err_ctx, win, prop_sel, atom_clipboard,
      clipboard_sync_enabled, conns, ctxs, uiPc, new_conn, pollPc, data_size,
      fetch, call, wire, flushes, log, delivered, fault, replyErrors>>

renderVars ==
    <<screenWidth, screenHeight, imageWidth, imageHeight, transform,
      cursorPosition>>

touchVars ==
    <<renderVars, handler, mHMListener, mDexListener, tcall, out>>

vars ==
    <<nativeVars, touchVars>>

---------------------------------------------------------------------------
(* Bounds *)

\* connection objects that connect may create in one run
MaxConns ==
    2

\* events the server may have queued on one connection
MaxQueue ==
    2

\* requests that may wait unflushed in one connection's output buffer
MaxOut ==
    1

\* clipboard exchanges (an owner change and what follows it) under way on
\* one connection
MaxPending ==
    1

\* awaited requests the server may answer with a protocol error in one run
MaxReplyErrors ==
    1

\* largest width and height, of the view and of the image, in pixels
MaxDim ==
    3

\* largest pointer coordinate, in view pixels
MaxCoord ==
    3

\* fingers a device reports at once
MaxPointers ==
    3

\* vertical finger motion of one event of a swipe, in view pixels
SwipeStep ==
    25

\* swipe actions counted per gesture session
MaxSwipes ==
    2

---------------------------------------------------------------------------
(* Values *)

NULL ==
    0

\* heap connection objects
ConnIds ==
    1..MaxConns

XCB_CONN_ERROR ==
    1

XCB_CONN_CLOSED_PARSE_ERR ==
    5

\* xcb_connection_has_error values the transport may report for a candidate
ConnErrs ==
    {XCB_CONN_ERROR, XCB_CONN_CLOSED_PARSE_ERR}

\* xcb_connect_to_fd never returns NULL: on failure it returns a static
\* connection object whose only content is the error code.
ErrConn(e) ==
    0 - e

ErrConnIds ==
    {ErrConn(e) : e \in ConnErrs}

AllConnIds ==
    ConnIds \cup ErrConnIds

\* What the server behind connection c negotiates.  Each connect reaches a
\* server (or a restarted one) that numbers its extensions and atoms afresh.
FirstEventOf(c) ==
    86 + c

ClipboardAtomOf(c) ==
    300 + c

PropAtomOf(c) ==
    400 + c

\* xcb_generate_id on connection c
XidOf(c) ==
    IF c \in ConnIds THEN 4194304 * c ELSE 0 - 1

XCB_XFIXES_SELECTION_NOTIFY ==
    0

XCB_SELECTION_NOTIFY ==
    31

XCB_ATOM_STRING ==
    31

XCB_ATOM_ANY ==
    0


NoCall ==
    [op |-> "none", args |-> <<>>]

\* The observation of the last step: its operation and what selects the
\* branch it took.
Call(op, args) ==
    [op |-> op, args |-> args]

Req(name, c, args) ==
    [req |-> name, to |-> c, args |-> args]

\* A connection object before xcb_connect_to_fd has returned it.
UnusedConn ==
    [state |-> "unused", evq |-> <<>>, outbuf |-> <<>>, unchecked |-> FALSE,
     selected |-> FALSE, hasWin |-> FALSE, pending |-> 0]

StaticErrConn ==
    [state |-> "error", evq |-> <<>>, outbuf |-> <<>>, unchecked |-> FALSE,
     selected |-> FALSE, hasWin |-> FALSE, pending |-> 0]

InitNative ==
    /\ conn = NULL
    /\ xfixes_first_event = 0
    /\ err_ctx = NULL
    /\ win = 0
    /\ prop_sel = 0
    /\ atom_clipboard = 0
    /\ clipboard_sync_enabled = FALSE
    /\ conns = [c \in AllConnIds |->
                    IF c \in ConnIds THEN UnusedConn ELSE StaticErrConn]
    /\ ctxs = [c \in ConnIds |-> "none"]
    /\ uiPc = "idle"
    /\ new_conn = NULL
    /\ pollPc = "idle"
    /\ data_size = 0
    /\ fetch = {}
    /\ call = NoCall
    /\ wire = <<>>
    /\ flushes = 0
    /\ log = <<>>
    /\ delivered = <<>>
    /\ fault = FALSE
    /\ replyErrors = 0

---------------------------------------------------------------------------
(* Java float values.  A finite value is the exact fraction n/d in lowest   *)
(* terms (the rounding of the 24-bit significand is not modelled); the      *)
(* values a division by zero produces, the infinities and NaN, are kept,    *)
(* with the IEEE 754 rules Java applies to them.                            *)

Abs(i) ==
    IF i < 0 THEN 0 - i ELSE i

Sign(i) ==
    IF i < 0 THEN 0 - 1 ELSE IF i > 0 THEN 1 ELSE 0

RECURSIVE GCD(_, _)
GCD(a, b) ==
    IF b = 0 THEN a ELSE GCD(b, a % b)

\* n/d, d > 0, in lowest terms
Fin(n, d) ==
    LET g == GCD(Abs(n), d)
    IN  [k |-> "fin", n |-> n \div g, d |-> d \div g]

NaN ==
    [k |-> "nan", n |-> 0, d |-> 1]

\* +Infinity (sign = 1) or -Infinity (sign = -1)
Inf(sign) ==
    [k |-> "inf", n |-> sign, d |-> 1]

\* (float) i
FromInt(i) ==
    Fin(i, 1)

IsZero(f) ==
    f.k = "fin" /\ f.n = 0

FNeg(f) ==
    IF f.k = "nan" THEN NaN ELSE [f EXCEPT !.n = 0 - f.n]

\* f / g for finite f, g (the division of resetTransformation and of 1/x)
FDiv(f, g) ==
    IF f.k = "nan" \/ g.k = "nan" THEN NaN
    ELSE IF f.k = "inf" THEN IF g.k = "inf" THEN NaN
                             ELSE Inf(f.n * (IF g.n < 0 THEN 0 - 1 ELSE 1))
    ELSE IF g.k = "inf" THEN Fin(0, 1)
    ELSE IF g.n = 0 THEN IF f.n = 0 THEN NaN ELSE Inf(Sign(f.n))
    ELSE Fin(f.n * g.d * Sign(g.n), f.d * Abs(g.n))

FMul(f, g) ==
    IF f.k = "nan" \/ g.k = "nan" THEN NaN
    ELSE IF f.k = "inf" \/ g.k = "inf"
         THEN IF IsZero(f) \/ IsZero(g) THEN NaN ELSE Inf(Sign(f.n) * Sign(g.n))
    ELSE Fin(f.n * g.n, f.d * g.d)

FAdd(f, g) ==
    IF f.k = "nan" \/ g.k = "nan" THEN NaN
    ELSE IF f.k = "inf" THEN IF g.k = "inf" /\ g.n # f.n THEN NaN ELSE f
    ELSE IF g.k = "inf" THEN g
    ELSE Fin(f.n * g.d + g.n * f.d, f.d * g.d)

FSub(f, g) ==
    FAdd(f, FNeg(g))

\* f == g; false when either is NaN
FEq(f, g) ==
    f.k # "nan" /\ g.k # "nan" /\ f = g

\* f < g; false when either is NaN
FLt(f, g) ==
    IF f.k = "nan" \/ g.k = "nan" THEN FALSE
    ELSE IF f.k = "inf" THEN f.n < 0 /\ ~(g.k = "inf" /\ g.n < 0)
    ELSE IF g.k = "inf" THEN g.n > 0
    ELSE f.n * g.d < g.n * f.d

FGt(f, g) ==
    FLt(g, f)

\* (int) f: truncation toward zero, NaN to 0, the infinities saturate
ToInt(f) ==
    IF f.k = "nan" THEN 0
    ELSE IF f.k = "inf" THEN IF f.n > 0 THEN 2147483647 ELSE 0 - 2147483647 - 1
    ELSE Sign(f.n) * (Abs(f.n) \div f.d)

\* a PointF
Point(x, y) ==
    [x |-> x, y |-> y]

---------------------------------------------------------------------------
(* The transport (libxcb), as far as android.c relies on it.  A step works  *)
(* on a record t = [conns, wire, flushes, log, fault] that starts as T0 and *)
(* is threaded through the calls the handler makes, in the handler's order. *)

T0 ==
    [conns |-> conns, wire |-> <<>>, flushes |-> 0, log |-> <<>>,
     fault |-> fault]

\* Whether handle c names an object that may still be used.  The static
\* error connection returned by a failed xcb_connect_to_fd is never freed.
Usable(t, c) ==
    c # NULL /\ t.conns[c].state \in {"live", "error"}

\* xcb_send_request: queue a request in c's output buffer.  A connection in
\* the error state accepts nothing; a NULL or disconnected handle is a wild
\* pointer.
XcbSend(t, c, r) ==
    IF ~Usable(t, c) THEN [t EXCEPT !.fault = TRUE]
    ELSE IF t.conns[c].state = "error" THEN t
    ELSE [t EXCEPT !.conns[c].outbuf = Append(@, r),
                   !.conns[c].unchecked = TRUE]

\* xcb_flush: hand the whole output buffer to the transport.
XcbFlush(t, c) ==
    IF ~Usable(t, c) THEN [t EXCEPT !.fault = TRUE, !.flushes = @ + 1]
    ELSE [t EXCEPT !.wire = @ \o t.conns[c].outbuf,
                   !.conns[c].outbuf = <<>>,
                   !.flushes = @ + 1]

\* __android_log_print
Log(t, line) ==
    [t EXCEPT !.log = Append(@, line)]

\* A step that reads through a NULL, freed or disconnected handle has no
\* defined outcome (in practice the process dies on SIGSEGV): the model
\* records the fault and follows the run no further.
Running ==
    ~fault

\* The server answers an awaited request on connection c with a reply (ok)
\* or with a protocol error.  A connection that does not work answers with
\* neither.
Answered(c, ok) ==
    /\ ~ok => /\ c # NULL
              /\ conns[c].state = "live"
              /\ replyErrors < MaxReplyErrors
    /\ replyErrors' = IF ok THEN replyErrors ELSE replyErrors + 1

\* The step's effects on the transport become the next state.
Commit(t) ==
    /\ conns' = t.conns
    /\ wire' = t.wire
    /\ flushes' = t.flushes
    /\ log' = t.log
    /\ fault' = t.fault

---------------------------------------------------------------------------
(* The UI-driven thread: the clipboard toggle and the protocol encoder.     *)

\* void setClipboardSyncEnabled(jboolean enabled)
setClipboardSyncEnabled(enabled) ==
    /\ Running
    /\ uiPc = "idle"
    /\ clipboard_sync_enabled' = enabled
    /\ UNCHANGED touchVars
    /\ call' = Call("setClipboardSyncEnabled", <<>>)
    /\ Commit(T0)
    /\ delivered' = <<>>
    /\ UNCHANGED <<conn, xfixes_first_event, err_ctx, win, prop_sel,
                   atom_clipboard, ctxs, uiPc, new_conn, pollPc, data_size, fetch,
                   replyErrors>>

\* an encode call that waits until the poll thread is out of its round trips
EncodeFrame_WaitsForPoll ==
    /\ pollPc \notin {"prop_size", "prop_value"}
    /\ Running
    /\ UNCHANGED touchVars
    /\ delivered' = <<>>
    /\ UNCHANGED <<conn, xfixes_first_event, err_ctx, win, prop_sel,
                   atom_clipboard, clipboard_sync_enabled, ctxs, uiPc,
                   new_conn, pollPc, data_size, fetch, replyErrors>>

\* What every encode call leaves alone.
EncodeFrame ==
    /\ Running
    /\ UNCHANGED touchVars
    /\ delivered' = <<>>
    /\ UNCHANGED <<conn, xfixes_first_event, err_ctx, win, prop_sel,
                   atom_clipboard, clipboard_sync_enabled, ctxs, uiPc,
                   new_conn, pollPc, data_size, fetch, replyErrors>>

\* if (conn) { xcb_tx11_screen_size_change(conn, width, height); xcb_flush(conn); }
EncodeWindowChange(t, width, height) ==
    IF conn # NULL
    THEN XcbFlush(XcbSend(t, conn,
            Req("tx11_screen_size_change", conn, <<width, height>>)), conn)
    ELSE t

sendWindowChange(width, height) ==
    /\ uiPc = "idle"
    /\ call' = Call("sendWindowChange", <<>>)
    /\ Commit(EncodeWindowChange(T0, width, height))
    /\ EncodeFrame

\* if (conn) { log; xcb_tx11_mouse_event(conn, x, y, which_button, button_down, relative);
\*             xcb_flush(conn); }
EncodeMouseEvent(t, x, y, which_button, button_down, relative) ==
    IF conn # NULL
    THEN XcbFlush(XcbSend(Log(t, "Sending mouse event"), conn,
            Req("tx11_mouse_event", conn,
                <<x, y, which_button, button_down, relative>>)), conn)
    ELSE t

sendMouseEvent(x, y, which_button, button_down, relative) ==
    /\ uiPc = "idle"
    /\ call' = Call("sendMouseEvent", <<>>)
    /\ Commit(EncodeMouseEvent(T0, x, y, which_button, button_down, relative))
    /\ EncodeFrame

\* if (conn) { if (action >= 0) xcb_tx11_touch_event(conn, action, id, x, y);
\*             else xcb_flush(conn); }
EncodeTouchEvent(t, action, id, x, y) ==
    IF conn # NULL
    THEN IF action >= 0
         THEN XcbSend(t, conn, Req("tx11_touch_event", conn, <<action, id, x, y>>))
         ELSE XcbFlush(t, conn)
    ELSE t

sendTouchEvent(action, id, x, y) ==
    /\ uiPc = "idle"
    \* the output buffer is bounded in the model
    /\ (conn # NULL /\ action >= 0) => Len(conns[conn].outbuf) < MaxOut
    /\ call' = Call("sendTouchEvent", <<action>>)
    /\ Commit(EncodeTouchEvent(T0, action, id, x, y))
    /\ EncodeFrame

\* android-to-linux-keycodes.h: the translation table, on the key codes the
\* model feeds it (AKEYCODE_A = 29 -> KEY_A = 30, AKEYCODE_ENTER = 66 ->
\* KEY_ENTER = 28); every other entry is KEY_RESERVED.
android_to_linux_keycode(key_code) ==
    CASE key_code = 29 -> 30
      [] key_code = 66 -> 28
      [] OTHER -> 0

\* the key code taken from the translation table whatever the scan code
KeyCodeOf_TableOnly(scan_code, key_code) ==
    android_to_linux_keycode(key_code)

\* int code = (scan_code) ?: android_to_linux_keycode[key_code];
KeyCodeOf(scan_code, key_code) ==
    IF scan_code # 0 THEN scan_code ELSE android_to_linux_keycode(key_code)

\* EncodeKeyEvent without its test of conn
EncodeKeyEvent_Unguarded(t, scan_code, key_code, key_down) ==
    XcbFlush(XcbSend(t, conn,
        Req("tx11_key_event", conn,
            <<KeyCodeOf(scan_code, key_code) + 8, key_down>>)), conn)

\* if (conn) { ...; xcb_tx11_key_event(conn, code + 8, key_down); xcb_flush(conn); }
EncodeKeyEvent(t, scan_code, key_code, key_down) ==
    IF conn # NULL
    THEN XcbFlush(XcbSend(t, conn,
            Req("tx11_key_event", conn,
                <<KeyCodeOf(scan_code, key_code) + 8, key_down>>)), conn)
    ELSE t

sendKeyEvent(scan_code, key_code, key_down) ==
    /\ uiPc = "idle"
    /\ call' = Call("sendKeyEvent", <<scan_code, key_code, key_down>>)
    /\ Commit(EncodeKeyEvent(T0, scan_code, key_code, key_down))
    /\ EncodeFrame

\* EncodeUnicodeEvent without its xcb_flush
EncodeUnicodeEvent_Unflushed(t, unicode) ==
    IF conn # NULL
    THEN XcbSend(t, conn, Req("tx11_unicode_event", conn, <<unicode>>))
    ELSE t

\* if (conn) { xcb_tx11_unicode_event(conn, unicode); xcb_flush(conn); }
EncodeUnicodeEvent(t, unicode) ==
    IF conn # NULL
    THEN XcbFlush(XcbSend(t, conn, Req("tx11_unicode_event", conn, <<unicode>>)), conn)
    ELSE t

sendUnicodeEvent(unicode) ==
    /\ uiPc = "idle"
    /\ call' = Call("sendUnicodeEvent", <<>>)
    /\ Commit(EncodeUnicodeEvent(T0, unicode))
    /\ EncodeFrame

\* The encode calls, on the arguments the model feeds them.
Encode ==
    \/ sendWindowChange(4, 2)
    \/ sendMouseEvent(1, 1, 1, TRUE, FALSE)
    \/ \E action \in {-1, 0} : sendTouchEvent(action, 0, 1, 1)
    \/ \E scan_code \in {0, 30} : sendKeyEvent(scan_code, 29, TRUE)
    \/ sendUnicodeEvent(65)

EncodeOps ==
    {"sendWindowChange", "sendMouseEvent", "sendTouchEvent", "sendKeyEvent",
     "sendUnicodeEvent"}

---------------------------------------------------------------------------
(* connect, on the UI-driven thread.  Every statement that blocks on a      *)
(* round trip to the server, frees an object or stores a global is one      *)
(* step, so that the poll thread may run between any two of them.           *)

\* A request whose reply (or xcb_request_check) is awaited: libxcb flushes
\* the output buffer while it waits.  This is not an explicit xcb_flush.
XcbRoundTrip(t, c, r) ==
    IF ~Usable(t, c) THEN [t EXCEPT !.fault = TRUE]
    ELSE IF t.conns[c].state = "error" THEN t
    ELSE [t EXCEPT !.wire = @ \o t.conns[c].outbuf \o <<r>>,
                   !.conns[c].outbuf = <<>>]

\* A round trip on c yields a reply or a protocol error only when c works:
\* on a connection in the error state both the reply and the error are NULL.
Answers(t, c) ==
    Usable(t, c) /\ t.conns[c].state = "live"

\* parse_error that frees the error without decoding or logging it
parse_error_Quiet(t) ==
    t

\* parse_error(err), err != NULL: decode with err_ctx and log.
parse_error(t) ==
    IF err_ctx = NULL \/ ctxs[err_ctx] # "live"
    THEN [t EXCEPT !.fault = TRUE]
    ELSE Log(t, "XCB Error of failed request")

ConnectFrame ==
    /\ Running
    /\ UNCHANGED touchVars
    /\ call' = Call("connect", <<>>)
    /\ delivered' = <<>>
    /\ UNCHANGED <<clipboard_sync_enabled, pollPc, data_size, fetch>>

\* xcb_connection_t* new_conn = xcb_connect_to_fd(fd, NULL);
\* int conn_err = xcb_connection_has_error(new_conn); if (conn_err) { log }
ConnectOpen(conn_err) ==
    /\ uiPc = "idle"
    /\ LET c == IF conn_err # 0 THEN ErrConn(conn_err)
                ELSE CHOOSE i \in ConnIds :
                        /\ conns[i].state = "unused"
                        /\ \A j \in ConnIds : conns[j].state = "unused" => i <= j
           t == IF conn_err # 0
                THEN Log(T0, "XCB connection has error")
                ELSE [T0 EXCEPT !.conns[c].state = "live"]
       IN  /\ conn_err = 0 => \E i \in ConnIds : conns[i].state = "unused"
           /\ new_conn' = c
           /\ Commit(t)
    /\ uiPc' = "free_ctx"
    /\ UNCHANGED replyErrors
    /\ ConnectFrame
    /\ UNCHANGED <<conn, xfixes_first_event, err_ctx, win, prop_sel,
                   atom_clipboard, ctxs>>

\* if (err_ctx) xcb_errors_context_free(err_ctx);
ConnectFreeCtx ==
    /\ uiPc = "free_ctx"
    /\ ctxs' = IF err_ctx # NULL THEN [ctxs EXCEPT ![err_ctx] = "freed"] ELSE ctxs
    /\ Commit(IF err_ctx # NULL /\ ctxs[err_ctx] # "live"
              THEN [T0 EXCEPT !.fault = TRUE] ELSE T0)
    /\ uiPc' = "disconnect"
    /\ UNCHANGED replyErrors
    /\ ConnectFrame
    /\ UNCHANGED <<conn, xfixes_first_event, err_ctx, win, prop_sel,
                   atom_clipboard, new_conn>>

\* if (conn) xcb_disconnect(conn);   (a no-op on a static error connection)
ConnectDisconnect ==
    /\ uiPc = "disconnect"
    /\ Commit(IF conn = NULL THEN T0
              ELSE IF ~Usable(T0, conn) THEN [T0 EXCEPT !.fault = TRUE]
              ELSE IF conns[conn].state = "error" THEN T0
              ELSE [T0 EXCEPT !.conns[conn] = [UnusedConn EXCEPT !.state = "closed"]])
    /\ uiPc' = "install"
    /\ UNCHANGED replyErrors
    /\ ConnectFrame
    /\ UNCHANGED <<conn, xfixes_first_event, err_ctx, win, prop_sel,
                   atom_clipboard, ctxs, new_conn>>

\* conn = new_conn; xcb_errors_context_new(conn, &err_ctx); log
\* xcb_errors_context_new stores NULL when the connection does not work.
ConnectInstall ==
    /\ uiPc = "install"
    /\ conn' = new_conn
    /\ IF Answers(T0, new_conn)
       THEN /\ err_ctx' = new_conn
            /\ ctxs' = [ctxs EXCEPT ![new_conn] = "live"]
       ELSE /\ err_ctx' = NULL
            /\ ctxs' = ctxs
    /\ Commit(Log(T0, "XCB connection is successfull"))
    /\ uiPc' = "query_extension"
    /\ UNCHANGED replyErrors
    /\ ConnectFrame
    /\ UNCHANGED <<xfixes_first_event, win, prop_sel, atom_clipboard, new_conn>>

\* Negotiate that drops a protocol error without decoding or logging it
Negotiate_Silent(t, r, ok) ==
    XcbRoundTrip(t, conn, r)

\* One negotiation round trip: the request r goes out, and then either the
\* reply arrives (ok) or a protocol error does, which parse_error logs.
Negotiate(t, r, ok) ==
    LET t1 == XcbRoundTrip(t, conn, r)
    IN  IF Answers(t, conn) /\ ~ok THEN parse_error(t1) ELSE t1

\* xcb_query_extension(conn, 6, "XFIXES") ... if (reply) xfixes_first_event = reply->first_event;
ConnectQueryExtension(ok) ==
    /\ uiPc = "query_extension"
    /\ Commit(Negotiate(T0, Req("query_extension", conn, <<"XFIXES">>), ok))
    /\ xfixes_first_event' =
           IF Answers(T0, conn) /\ ok THEN FirstEventOf(conn)
           ELSE xfixes_first_event
    /\ uiPc' = "query_version"
    /\ Answered(conn, ok)
    /\ ConnectFrame
    /\ UNCHANGED <<conn, err_ctx, win, prop_sel, atom_clipboard, ctxs, new_conn>>

\* xcb_xfixes_query_version(conn, 4, 0) ...
ConnectQueryVersion(ok) ==
    /\ uiPc = "query_version"
    /\ Commit(Negotiate(T0, Req("xfixes_query_version", conn, <<4, 0>>), ok))
    /\ uiPc' = "intern_clipboard"
    /\ Answered(conn, ok)
    /\ ConnectFrame
    /\ UNCHANGED <<conn, xfixes_first_event, err_ctx, win, prop_sel,
                   atom_clipboard, ctxs, new_conn>>

\* xcb_intern_atom(conn, false, 9, "CLIPBOARD") ... if (reply) atom_clipboard = reply->atom;
ConnectInternClipboard(ok) ==
    /\ uiPc = "intern_clipboard"
    /\ Commit(Negotiate(T0, Req("intern_atom", conn, <<"CLIPBOARD">>), ok))
    /\ atom_clipboard' =
           IF Answers(T0, conn) /\ ok THEN ClipboardAtomOf(conn)
           ELSE atom_clipboard
    /\ uiPc' = "intern_prop"
    /\ Answered(conn, ok)
    /\ ConnectFrame
    /\ UNCHANGED <<conn, xfixes_first_event, err_ctx, win, prop_sel, ctxs,
                   new_conn>>

\* xcb_intern_atom(conn, false, 15, "TERMUX_X11_CLIP") ... if (reply) prop_sel = reply->atom;
ConnectInternProp(ok) ==
    /\ uiPc = "intern_prop"
    /\ Commit(Negotiate(T0, Req("intern_atom", conn, <<"TERMUX_X11_CLIP">>), ok))
    /\ prop_sel' =
           IF Answers(T0, conn) /\ ok THEN PropAtomOf(conn)
           ELSE prop_sel
    /\ uiPc' = "select_input"
    /\ Answered(conn, ok)
    /\ ConnectFrame
    /\ UNCHANGED <<conn, xfixes_first_event, err_ctx, win, atom_clipboard,
                   ctxs, new_conn>>

\* xcb_screen_t *s = xcb_setup_roots_iterator(xcb_get_setup(conn)).data;
\* xcb_get_setup returns NULL for a connection in the error state, and the
\* iterator and s->root then read through it.
RootOf(t, c) ==
    IF Answers(t, c) THEN t ELSE [t EXCEPT !.fault = TRUE]

\* xcb_xfixes_select_selection_input_checked(conn, s->root, atom_clipboard, ...);
\* parse_error(xcb_request_check(conn, cookie));
ConnectSelectInput(ok) ==
    /\ uiPc = "select_input"
    /\ LET t == Negotiate(RootOf(T0, conn),
                    Req("xfixes_select_selection_input", conn, <<atom_clipboard>>), ok)
       IN  Commit(IF Answers(T0, conn) /\ ok
                  THEN [t EXCEPT !.conns[conn].selected = TRUE] ELSE t)
    /\ uiPc' = "create_window"
    /\ Answered(conn, ok)
    /\ ConnectFrame
    /\ UNCHANGED <<conn, xfixes_first_event, err_ctx, win, prop_sel,
                   atom_clipboard, ctxs, new_conn>>

\* win = xcb_generate_id(conn); xcb_create_window_checked(conn, 0, win, s->root, ...);
\* parse_error(xcb_request_check(conn, cookie));
ConnectCreateWindow(ok) ==
    /\ uiPc = "create_window"
    /\ win' = XidOf(conn)
    /\ LET t == Negotiate(RootOf(T0, conn),
                    Req("create_window", conn, <<XidOf(conn)>>), ok)
       IN  Commit(IF Answers(T0, conn) /\ ok
                  THEN [t EXCEPT !.conns[conn].hasWin = TRUE] ELSE t)
    /\ uiPc' = "flush"
    /\ Answered(conn, ok)
    /\ ConnectFrame
    /\ UNCHANGED <<conn, xfixes_first_event, err_ctx, prop_sel, atom_clipboard,
                   ctxs, new_conn>>

\* xcb_flush(conn); and connect returns
ConnectFlush ==
    /\ uiPc = "flush"
    /\ Commit(XcbFlush(T0, conn))
    /\ uiPc' = "idle"
    /\ UNCHANGED replyErrors
    /\ ConnectFrame
    /\ UNCHANGED <<conn, xfixes_first_event, err_ctx, win, prop_sel,
                   atom_clipboard, ctxs, new_conn>>

connect ==
    \/ \E conn_err \in {0} \cup ConnErrs : ConnectOpen(conn_err)
    \/ ConnectFreeCtx
    \/ ConnectDisconnect
    \/ ConnectInstall
    \/ \E ok \in BOOLEAN : ConnectQueryExtension(ok)
    \/ \E ok \in BOOLEAN : ConnectQueryVersion(ok)
    \/ \E ok \in BOOLEAN : ConnectInternClipboard(ok)
    \/ \E ok \in BOOLEAN : ConnectInternProp(ok)
    \/ \E ok \in BOOLEAN : ConnectSelectInput(ok)
    \/ \E ok \in BOOLEAN : ConnectCreateWindow(ok)
    \/ ConnectFlush

---------------------------------------------------------------------------
(* The display server, as the client sees it: it queues events on a live    *)
(* connection.                                                              *)

Event(response_type) ==
    [response_type |-> response_type]

ServerFrame ==
    /\ Running
    /\ UNCHANGED touchVars
    /\ call' = Call("server", <<>>)
    /\ delivered' = <<>>
    /\ UNCHANGED <<conn, xfixes_first_event, err_ctx, win, prop_sel,
                   atom_clipboard, clipboard_sync_enabled, ctxs, uiPc,
                   new_conn, pollPc, data_size, fetch, replyErrors>>

Queue(c, ev) ==
    /\ conns[c].state = "live"
    /\ Len(conns[c].evq) < MaxQueue
    /\ Commit([T0 EXCEPT !.conns[c].evq = Append(@, ev)])
    /\ ServerFrame

\* a protocol error for a request sent unchecked (response_type 0)
ServerError(c) ==
    /\ conns[c].unchecked
    /\ Queue(c, Event(0))

\* XFixes SelectionNotify: the selection owner changed.  Sent only to a
\* client that registered for it.
OwnerChangesQueued(c) ==
    Cardinality({i \in 1..Len(conns[c].evq) :
        conns[c].evq[i].response_type = FirstEventOf(c) + XCB_XFIXES_SELECTION_NOTIFY})

ServerOwnerChange(c) ==
    /\ conns[c].selected
    /\ conns[c].pending + OwnerChangesQueued(c) < MaxPending
    /\ Queue(c, Event(FirstEventOf(c) + XCB_XFIXES_SELECTION_NOTIFY))

\* SelectionNotify: the answer to a ConvertSelection of this client
ServerSelectionNotify(c) ==
    /\ conns[c].state = "live"
    /\ conns[c].pending > 0
    /\ Len(conns[c].evq) < MaxQueue
    /\ Commit([T0 EXCEPT !.conns[c].evq = Append(@, Event(XCB_SELECTION_NOTIFY)),
                         !.conns[c].pending = @ - 1])
    /\ ServerFrame

\* SelectionNotify forwarded by another client's SendEvent (bit 0x80 set)
ServerSentSelectionNotify(c) ==
    /\ conns[c].hasWin
    /\ Queue(c, Event(XCB_SELECTION_NOTIFY + 128))

server ==
    \E c \in ConnIds :
        \/ ServerError(c)
        \/ ServerOwnerChange(c)
        \/ ServerSelectionNotify(c)
        \/ ServerSentSelectionNotify(c)

---------------------------------------------------------------------------
(* handleXEvents, on the poll thread.  It blocks in xcb_get_property_reply, *)
(* so the drain of one event may take up to three steps.                    *)

PollFrame(op) ==
    /\ Running
    /\ UNCHANGED touchVars
    /\ call' = Call("handleXEvents", <<op>>)
    /\ UNCHANGED <<conn, xfixes_first_event, err_ctx, win, prop_sel,
                   atom_clipboard, clipboard_sync_enabled, ctxs, uiPc, new_conn>>

\* if (!conn) return;
HandleEnter ==
    /\ pollPc = "idle"
    /\ pollPc' = IF conn = NULL THEN "idle" ELSE "poll"
    /\ Commit(T0)
    /\ delivered' = <<>>
    /\ data_size' = data_size
    /\ fetch' = {}
    /\ UNCHANGED replyErrors
    /\ PollFrame("enter")

\* xcb_convert_selection(conn, win, atom_clipboard, XCB_ATOM_STRING, prop_sel, XCB_CURRENT_TIME);
\* The server answers each ConvertSelection with one SelectionNotify.
ConvertSelection(t) ==
    LET t1 == XcbSend(t, conn, Req("convert_selection", conn,
                     <<win, atom_clipboard, XCB_ATOM_STRING, prop_sel>>))
    IN  IF Answers(t, conn)
        THEN [t1 EXCEPT !.conns[conn].pending = @ + 1]
        ELSE t1

\* OnOwnerChange without its test of clipboard_sync_enabled
OnOwnerChange_Unguarded(t) ==
    XcbFlush(ConvertSelection(t), conn)

\* OnOwnerChange without its xcb_flush
OnOwnerChange_Unflushed(t) ==
    IF clipboard_sync_enabled
    THEN ConvertSelection(t)
    ELSE t

\* if (clipboard_sync_enabled) { xcb_convert_selection(...); xcb_flush(conn); }
OnOwnerChange(t) ==
    IF clipboard_sync_enabled
    THEN XcbFlush(ConvertSelection(t), conn)
    ELSE t

\* GetProperty that asks for a fixed length, whatever size was learnt
GetProperty_FixedLength(t, long_length) ==
    XcbRoundTrip(t, conn, Req("get_property", conn,
                    <<win, prop_sel, XCB_ATOM_ANY, 0, 1024>>))

\* xcb_get_property(conn, false, win, prop_sel, XCB_ATOM_ANY, 0, long_length)
GetProperty(t, long_length) ==
    XcbRoundTrip(t, conn, Req("get_property", conn,
                    <<win, prop_sel, XCB_ATOM_ANY, 0, long_length>>))

\* the event at the head of the polled queue is a SelectionNotify:
\* (ev->response_type & ~0x80) == XCB_SELECTION_NOTIFY, tested third
IsSelectionNotify ==
    /\ Usable(T0, conn)
    /\ conns[conn].evq # <<>>
    /\ Head(conns[conn].evq).response_type # 0
    /\ Head(conns[conn].evq).response_type
           # xfixes_first_event + XCB_XFIXES_SELECTION_NOTIFY
    /\ Head(conns[conn].evq).response_type
           \in {XCB_SELECTION_NOTIFY, XCB_SELECTION_NOTIFY + 128}

\* while ((ev = xcb_poll_for_event(conn))) { dispatch on ev->response_type }
HandleEvent ==
    /\ pollPc = "poll"
    /\ delivered' = <<>>
    /\ data_size' = 0
    /\ fetch' = IF IsSelectionNotify THEN {conn} ELSE {}
    /\ UNCHANGED replyErrors
    /\ IF ~Usable(T0, conn)
       THEN /\ Commit([T0 EXCEPT !.fault = TRUE])
            /\ pollPc' = "idle"
            /\ PollFrame("fault")
       ELSE IF conns[conn].evq = <<>>
       THEN /\ Commit(T0)
            /\ pollPc' = "idle"
            /\ PollFrame("return")
       ELSE LET ev == Head(conns[conn].evq)
                t == Log([T0 EXCEPT !.conns[conn].evq = Tail(@)], "Response is")
            IN  IF ev.response_type = 0
                THEN /\ Commit(parse_error(t))
                     /\ pollPc' = "poll"
                     /\ PollFrame("error")
                ELSE IF ev.response_type = xfixes_first_event + XCB_XFIXES_SELECTION_NOTIFY
                THEN /\ Commit(OnOwnerChange(Log(t, "Clipboard content changed!")))
                     /\ pollPc' = "poll"
                     /\ PollFrame("owner_change")
                ELSE IF ev.response_type \in {XCB_SELECTION_NOTIFY, XCB_SELECTION_NOTIFY + 128}
                THEN /\ Commit(GetProperty(t, 0))
                     /\ pollPc' = "prop_size"
                     /\ PollFrame("selection_notify")
                ELSE /\ Commit(t)
                     /\ pollPc' = "poll"
                     /\ PollFrame("other")

\* HandlePropSize without its test of data_size: the second query goes out
\* whatever the first one answered
HandlePropSize_AlwaysRequery(ok, bytes_after) ==
    /\ pollPc = "prop_size"
    /\ Answered(conn, ok)
    /\ delivered' = <<>>
    /\ LET reply == Answers(T0, conn) /\ ok
           size == IF reply THEN bytes_after ELSE 0
           t == IF ~Usable(T0, conn) THEN [T0 EXCEPT !.fault = TRUE]
                ELSE IF Answers(T0, conn) /\ ~ok THEN parse_error(T0)
                ELSE T0
       IN  /\ data_size' = size
           /\ fetch' = fetch \cup {conn}
           /\ Commit(GetProperty(t, size))
           /\ pollPc' = "prop_value"
    /\ PollFrame("prop_size")

\* reply = xcb_get_property_reply(conn, cookie, &err); parse_error(err);
\* if (reply) data_size = reply->bytes_after;
\* if (data_size) { cookie = xcb_get_property(..., 0, data_size); ...
HandlePropSize(ok, bytes_after) ==
    /\ pollPc = "prop_size"
    /\ Answered(conn, ok)
    /\ delivered' = <<>>
    /\ LET reply == Answers(T0, conn) /\ ok
           size == IF reply THEN bytes_after ELSE 0
           t == IF ~Usable(T0, conn) THEN [T0 EXCEPT !.fault = TRUE]
                ELSE IF Answers(T0, conn) /\ ~ok THEN parse_error(T0)
                ELSE T0
       IN  /\ data_size' = size
           /\ fetch' = fetch \cup {conn}
           /\ Commit(IF size # 0 THEN GetProperty(t, size) ELSE t)
           /\ pollPc' = IF size # 0 THEN "prop_value" ELSE "poll"
    /\ PollFrame("prop_size")

\* reply = xcb_get_property_reply(conn, cookie, &err); parse_error(err);
\* if (reply) CallVoidMethod(env, thiz, setClipboardText, NewStringUTF(value));
HandlePropValue(ok) ==
    /\ pollPc = "prop_value"
    /\ Answered(conn, ok)
    /\ LET reply == Answers(T0, conn) /\ ok
       IN  /\ delivered' = IF reply THEN <<[from |-> conn, size |-> data_size]>>
                           ELSE <<>>
           /\ Commit(IF ~Usable(T0, conn) THEN [T0 EXCEPT !.fault = TRUE]
                     ELSE IF Answers(T0, conn) /\ ~ok THEN parse_error(T0)
                     ELSE T0)
    /\ data_size' = data_size
    /\ fetch' = fetch \cup {conn}
    /\ pollPc' = "poll"
    /\ PollFrame("prop_value")

handleXEvents ==
    \/ HandleEnter
    \/ HandleEvent
    \/ \E ok \in BOOLEAN, bytes_after \in {0, 2} : HandlePropSize(ok, bytes_after)
    \/ \E ok \in BOOLEAN : HandlePropValue(ok)

---------------------------------------------------------------------------
(* TouchInputHandler.java: values.                                          *)

\* private static final float EPSILON = 0.001f
EPSILON ==
    Fin(1, 1000)

\* InputMode
UNKNOWN ==
    0

TRACKPAD ==
    1

SIMULATED_TOUCH ==
    2

TOUCH ==
    3

InputModes ==
    {UNKNOWN, TRACKPAD, SIMULATED_TOUCH, TOUCH}

\* InputStub button numbers, as the listeners pass them to the injector
BUTTON_UNDEFINED ==
    0

BUTTON_LEFT ==
    1

BUTTON_MIDDLE ==
    2

BUTTON_RIGHT ==
    3

\* ctx.getResources().getDisplayMetrics().density
density ==
    1

\* mSwipeThreshold = 40 * density
mSwipeThreshold ==
    40 * density

\* mEdgeSlopInPx = ViewConfiguration.get(ctx).getScaledEdgeSlop()
mEdgeSlopInPx ==
    1

\* The handler the view owns and the handler it constructs for touchpads.
Handlers ==
    {"main", "touchpad"}

\* mTouchpadHandler of handler h: <<>> is null
mTouchpadHandler(h) ==
    IF h = "main" THEN <<"touchpad">> ELSE <<>>

\* view and image sizes of the resize notifications
Sizes ==
    {<<w, h>> : w \in 0..MaxDim, h \in {0, MaxDim}}

\* pointer coordinates of the motion events, in view pixels
Xs ==
    0..MaxCoord

Ys ==
    {0, 1}

\* new Rect(left, top, right, bottom)
Rect(left, top, right, bottom) ==
    [left |-> left, top |-> top, right |-> right, bottom |-> bottom]

\* Rect.contains(x, y)
Contains(r, x, y) ==
    /\ r.left < r.right
    /\ r.top < r.bottom
    /\ x >= r.left
    /\ x < r.right
    /\ y >= r.top
    /\ y < r.bottom

\* Matrix: the transform only ever holds a scale
setScale(sx, sy) ==
    [sx |-> sx, sy |-> sy]

\* new Matrix()
Identity ==
    setScale(FromInt(1), FromInt(1))

\* m.invert(inverse), inverse a new Matrix: a matrix with a zero scale is not
\* invertible and leaves inverse the identity
Invert(m) ==
    IF IsZero(m.sx) \/ IsZero(m.sy)
    THEN Identity
    ELSE setScale(FDiv(FromInt(1), m.sx), FDiv(FromInt(1), m.sy))

\* m.mapPoints / m.mapVectors of one point
MapPoint(m, x, y) ==
    Point(FMul(m.sx, x), FMul(m.sy, y))

\* the gesture session a handler's ACTION_DOWN opens: the swipe actions
\* fired in it, and whether a 3-finger scroll took mTotalMotionY past the
\* threshold in it
NoSession ==
    [swipeDowns |-> 0, swipeUps |-> 0, crossed |-> FALSE]

\* the fields of a TouchInputHandler after its constructor
NewHandler ==
    [mInputStrategy |-> "Trackpad",
     mTotalMotionY |-> 0,
     mPanGestureBounds |-> Rect(0, 0, 0, 0),
     mSuppressCursorMovement |-> FALSE,
     mSwipeCompleted |-> FALSE,
     mIsDragging |-> FALSE,
     pointers |-> 0,
     e1 |-> Point(0, 0),
     session |-> NoSession]

InitTouch ==
    /\ screenWidth = 0
    /\ screenHeight = 0
    /\ imageWidth = 0
    /\ imageHeight = 0
    /\ transform = Identity
    /\ cursorPosition = Point(FromInt(0), FromInt(0))
    /\ handler = [h \in Handlers |-> NewHandler]
    /\ mHMListener = [savedBS |-> {}]
    /\ mDexListener = [savedBS |-> {}, mIsDragging |-> FALSE,
                       mIsScrolling |-> FALSE]
    /\ tcall = NoCall
    /\ out = <<>>

Init ==
    InitNative /\ InitTouch

---------------------------------------------------------------------------
(* TouchInputHandler.java: a handler call works on a record s of the        *)
(* RenderData (rd), the handlers' fields (hs), the listeners' fields (hm,   *)
(* dex) and the calls made so far on the strategy, the injector and the     *)
(* render stub (out).                                                       *)

S0 ==
    [rd |-> [screenWidth |-> screenWidth, screenHeight |-> screenHeight,
             imageWidth |-> imageWidth, imageHeight |-> imageHeight,
             transform |-> transform, cursorPosition |-> cursorPosition],
     hs |-> handler,
     hm |-> mHMListener,
     dex |-> mDexListener,
     out |-> <<>>]

Emit(s, c) ==
    [s EXCEPT !.out = Append(@, c)]

TouchCommit(s, op, args) ==
    /\ screenWidth' = s.rd.screenWidth
    /\ screenHeight' = s.rd.screenHeight
    /\ imageWidth' = s.rd.imageWidth
    /\ imageHeight' = s.rd.imageHeight
    /\ transform' = s.rd.transform
    /\ cursorPosition' = s.rd.cursorPosition
    /\ handler' = s.hs
    /\ mHMListener' = s.hm
    /\ mDexListener' = s.dex
    /\ out' = s.out
    /\ tcall' = Call(op, args)
    /\ UNCHANGED nativeVars

\* RenderData.setCursorPosition(newX, newY): stores the position ...
setCursorPosition(s, newX, newY) ==
    [s EXCEPT !.rd.cursorPosition = Point(newX, newY)]

\* ... and returns whether it differs from the one held
CursorMoved(s, newX, newY) ==
    \/ ~FEq(newX, s.rd.cursorPosition.x)
    \/ ~FEq(newY, s.rd.cursorPosition.y)

\* private void moveCursor(float newX, float newY)
moveCursor(s, h, newX, newY) ==
    LET injected(s1) ==
            IF CursorMoved(s, newX, newY)
            THEN Emit(s1, <<"injectCursorMoveEvent", ToInt(newX), ToInt(newY)>>)
            ELSE s1
    IN  Emit(injected(setCursorPosition(s, newX, newY)), <<"moveCursor">>)

\* the clamp of moveCursorByOffset on one axis: first to 0, then to the
\* screen extent
ClampToScreen(v, extent) ==
    LET high(low) == IF FGt(low, FromInt(extent)) THEN FromInt(extent) ELSE low
    IN  high(IF FLt(v, FromInt(0)) THEN FromInt(0) ELSE v)

\* moveCursorByOffset that adds the delta to the cursor position
moveCursorByOffset_Added(s, h, deltaX, deltaY) ==
    moveCursor(s, h,
               ClampToScreen(FAdd(s.rd.cursorPosition.x, deltaX), s.rd.screenWidth),
               ClampToScreen(FAdd(s.rd.cursorPosition.y, deltaY), s.rd.screenHeight))

\* private void moveCursorByOffset(float deltaX, float deltaY)
moveCursorByOffset(s, h, deltaX, deltaY) ==
    LET cursorPos == s.rd.cursorPosition
        x == FAdd(cursorPos.x, FNeg(deltaX))
        y == FAdd(cursorPos.y, FNeg(deltaY))
    IN  moveCursor(s, h, ClampToScreen(x, s.rd.screenWidth),
                         ClampToScreen(y, s.rd.screenHeight))

\* private float[] mapScreenPointToImagePoint(float screenX, float screenY)
mapScreenPointToImagePoint(s, screenX, screenY) ==
    MapPoint(Invert(s.rd.transform), screenX, screenY)

\* private void moveCursorToScreenPoint(float screenX, float screenY)
moveCursorToScreenPoint(s, h, screenX, screenY) ==
    LET moved(imagePoint) == moveCursor(s, h, imagePoint.x, imagePoint.y)
    IN  moved(mapScreenPointToImagePoint(s, screenX, screenY))

\* resetTransformation without the assignment: the transform is left as it is
resetTransformation_Skipped(s) ==
    s

\* private void resetTransformation()
resetTransformation(s) ==
    LET sx == FDiv(FromInt(s.rd.imageWidth), FromInt(s.rd.screenWidth))
        sy == FDiv(FromInt(s.rd.imageHeight), FromInt(s.rd.screenHeight))
    IN  [s EXCEPT !.rd.transform = setScale(sx, sy)]

\* public void handleClientSizeChanged(int w, int h)
RECURSIVE handleClientSizeChanged(_, _, _, _)
handleClientSizeChanged(s, h, w, ht) ==
    LET nested(s2) ==
            IF mTouchpadHandler(h) # <<>>
            THEN handleClientSizeChanged(s2, mTouchpadHandler(h)[1], w, ht)
            ELSE s2
    IN  nested(resetTransformation(
            [s EXCEPT !.rd.screenWidth = w, !.rd.screenHeight = ht]))

\* public void handleHostSizeChanged(int w, int h)
RECURSIVE handleHostSizeChanged(_, _, _, _)
handleHostSizeChanged(s, h, w, ht) ==
    LET s1 == [s EXCEPT !.rd.imageWidth = w, !.rd.imageHeight = ht,
                        !.hs[h].mPanGestureBounds =
                            Rect(mEdgeSlopInPx, mEdgeSlopInPx,
                                 w - mEdgeSlopInPx, ht - mEdgeSlopInPx)]
        s2 == moveCursorToScreenPoint(s1, h, FDiv(FromInt(w), FromInt(2)),
                                             FDiv(FromInt(ht), FromInt(2)))
        nested(s3) ==
            IF mTouchpadHandler(h) # <<>>
            THEN handleHostSizeChanged(s3, mTouchpadHandler(h)[1], w, ht)
            ELSE s3
    IN  nested(resetTransformation(s2))

\* setInputMode that starts the handler's gesture session afresh
setInputMode_NewSession(s, h, inputMode) ==
    [s EXCEPT !.hs[h].mInputStrategy =
                  IF inputMode = TOUCH THEN "Touch"
                  ELSE IF inputMode = SIMULATED_TOUCH THEN "SimulatedTouch"
                  ELSE "Trackpad",
              !.hs[h].mTotalMotionY = 0,
              !.hs[h].mSuppressCursorMovement = FALSE,
              !.hs[h].mSwipeCompleted = FALSE,
              !.hs[h].mIsDragging = FALSE]

\* setInputMode that also replaces the strategy of the nested touchpad handler
setInputMode_AlsoNested(s, h, inputMode) ==
    LET strategy == IF inputMode = TOUCH THEN "Touch"
                    ELSE IF inputMode = SIMULATED_TOUCH THEN "SimulatedTouch"
                    ELSE "Trackpad"
    IN  [s EXCEPT !.hs = [g \in Handlers |->
                            [s.hs[g] EXCEPT !.mInputStrategy = strategy]]]

\* public void setInputMode(@InputMode int inputMode)
setInputMode(s, h, inputMode) ==
    [s EXCEPT !.hs[h].mInputStrategy =
        IF inputMode = TOUCH THEN "Touch"
        ELSE IF inputMode = SIMULATED_TOUCH THEN "SimulatedTouch"
        ELSE "Trackpad"]

\* InputStrategyInterface.isIndirectInputMode() of handler h's strategy
isIndirectInputMode(s, h) ==
    s.hs[h].mInputStrategy = "Trackpad"

---------------------------------------------------------------------------
(* TouchInputHandler.java: motion events.  An event carries what the        *)
(* handler reads from it and, for the finger path, what the platform's      *)
(* gesture detectors answer when they are shown it: whether the scroll      *)
(* detector reports a scroll (scroll), whether the swipe detector holds the *)
(* gesture for a swipe (isSwiping), whether the tap detector reports a tap  *)
(* and of how many fingers (tap), and what the strategy answers to a tap or *)
(* a hold (consumed).                                                       *)

SOURCE_TOUCHSCREEN ==
    {"TOUCHSCREEN"}

SOURCE_TOUCHPAD ==
    {"TOUCHPAD"}

SOURCE_MOUSE ==
    {"MOUSE"}

\* buttons of MotionEvent.getButtonState()
Buttons ==
    {"BUTTON_PRIMARY", "BUTTON_SECONDARY", "BUTTON_TERTIARY"}

\* MotionEvent flags the Dex listener tests: 0x4000000 and 0x10000000
FLAG_DRAG ==
    {"0x4000000"}

FLAG_SCROLL ==
    {"0x4000000", "0x10000000"}

MotionEvent(tool, source, action) ==
    [tool |-> tool, source |-> source, action |-> action, pointerCount |-> 1,
     x |-> 0, y |-> 0, relX |-> 0, relY |-> 0, buttonState |-> {},
     actionButton |-> "", flags |-> {}, vscroll |-> 0, hscroll |-> 0,
     focused |-> TRUE, capture |-> FALSE,
     scroll |-> <<>>, isSwiping |-> FALSE, tap |-> <<>>, consumed |-> FALSE]

\* boolean isDexEvent(MotionEvent event)
isDexEvent(event) ==
    LET SOURCE_DEX == SOURCE_MOUSE \cup SOURCE_TOUCHSCREEN
    IN  /\ SOURCE_DEX \subseteq event.source
        /\ ~(SOURCE_TOUCHPAD \subseteq event.source)

\* onSwipe that fires the action without closing the gesture for swipes
onSwipe_NotCompleted(s, h) ==
    IF s.hs[h].mTotalMotionY > mSwipeThreshold
    THEN Emit(s, <<"swipeDown">>)
    ELSE IF s.hs[h].mTotalMotionY < 0 - mSwipeThreshold
    THEN Emit(s, <<"swipeUp">>)
    ELSE s

\* private boolean onSwipe()
onSwipe(s, h) ==
    LET completed(s1) ==
            [s1 EXCEPT !.hs[h].mSuppressCursorMovement = TRUE,
                       !.hs[h].mSwipeCompleted = TRUE]
    IN  IF s.hs[h].mTotalMotionY > mSwipeThreshold
        THEN completed(Emit(s, <<"swipeDown">>))
        ELSE IF s.hs[h].mTotalMotionY < 0 - mSwipeThreshold
        THEN completed(Emit(s, <<"swipeUp">>))
        ELSE s

\* onScroll that warps the cursor to the finger on every callback
onScroll_FollowsFinger(s, h, e1, e2, distanceX, distanceY) ==
    moveCursorToScreenPoint(s, h, FromInt(e2.x), FromInt(e2.y))

\* onScroll that forwards every delta to the strategy and does nothing else
onScroll_ForwardsOnly(s, h, e1, e2, distanceX, distanceY) ==
    Emit(s, <<"onScroll", distanceX, distanceY>>)

\* GestureListener.onScroll(e1, e2, distanceX, distanceY)
onScroll(s, h, e1, e2, distanceX, distanceY) ==
    LET me == s.hs[h]
        pointerCount == e2.pointerCount
    IN  IF ~Contains(me.mPanGestureBounds, e1.x, e1.y) /\ mTouchpadHandler(h) # <<>>
        THEN [s EXCEPT !.hs[h].mSuppressCursorMovement = TRUE]
        ELSE IF pointerCount >= 3 /\ ~me.mSwipeCompleted
        THEN onSwipe([s EXCEPT !.hs[h].mTotalMotionY = @ - distanceY], h)
        ELSE IF pointerCount = 2 /\ e2.isSwiping
        THEN LET s1 == IF ~isIndirectInputMode(s, h)
                       THEN moveCursorToScreenPoint(s, h, FromInt(e1.x), FromInt(e1.y))
                       ELSE s
                 s2 == Emit(s1, <<"onScroll", distanceX, distanceY>>)
             IN  [s2 EXCEPT !.hs[h].mSuppressCursorMovement = TRUE]
        ELSE IF pointerCount # 1 \/ me.mSuppressCursorMovement
        THEN s
        ELSE LET offset(delta) ==
                     IF isIndirectInputMode(s, h)
                     THEN moveCursorByOffset(s, h, delta.x, delta.y)
                     ELSE s
                 dragged(s1) ==
                     IF ~isIndirectInputMode(s, h) /\ me.mIsDragging
                     THEN moveCursorToScreenPoint(s1, h, FromInt(e2.x), FromInt(e2.y))
                     ELSE s1
             IN  dragged(offset(MapPoint(Invert(s.rd.transform),
                                         FromInt(distanceX), FromInt(distanceY))))

\* mouseButtonFromPointerCount that takes every count above two for three
mouseButtonFromPointerCount_ThreeOrMore(pointerCount) ==
    CASE pointerCount = 1 -> BUTTON_LEFT
      [] pointerCount = 2 -> BUTTON_RIGHT
      [] pointerCount >= 3 -> BUTTON_MIDDLE
      [] OTHER -> BUTTON_UNDEFINED

\* private int mouseButtonFromPointerCount(int pointerCount)
mouseButtonFromPointerCount(pointerCount) ==
    CASE pointerCount = 1 -> BUTTON_LEFT
      [] pointerCount = 2 -> BUTTON_RIGHT
      [] pointerCount = 3 -> BUTTON_MIDDLE
      [] OTHER -> BUTTON_UNDEFINED

\* a boundary test that finds every point inside the image
screenPointLiesOutsideImageBoundary_Never(s, screenX, screenY) ==
    FALSE

\* private boolean screenPointLiesOutsideImageBoundary(float screenX, float screenY)
screenPointLiesOutsideImageBoundary(s, screenX, screenY) ==
    LET imageWidthE == FAdd(FromInt(s.rd.imageWidth), EPSILON)
        imageHeightE == FAdd(FromInt(s.rd.imageHeight), EPSILON)
        outside(mappedPoints) ==
            \/ FLt(mappedPoints.x, FNeg(EPSILON))
            \/ FGt(mappedPoints.x, imageWidthE)
            \/ FLt(mappedPoints.y, FNeg(EPSILON))
            \/ FGt(mappedPoints.y, imageHeightE)
    IN  outside(mapScreenPointToImagePoint(s, screenX, screenY))

\* GestureListener.onTap(pointerCount, x, y); consumed is what the strategy's
\* onTap(button) returns
onTap(s, h, pointerCount, x, y, consumed) ==
    LET button == mouseButtonFromPointerCount(pointerCount)
    IN  IF button = BUTTON_UNDEFINED
        THEN s
        ELSE IF ~isIndirectInputMode(s, h)
                /\ screenPointLiesOutsideImageBoundary(s, FromInt(x), FromInt(y))
        THEN s
        ELSE LET s1 == IF ~isIndirectInputMode(s, h)
                       THEN moveCursorToScreenPoint(s, h, FromInt(x), FromInt(y))
                       ELSE s
                 feedback(s2) ==
                     IF consumed THEN Emit(s2, <<"showInputFeedback">>) ELSE s2
             IN  feedback(Emit(s1, <<"onTap", button>>))

\* GestureListener.onLongPress(pointerCount, x, y); consumed is what the
\* strategy's onPressAndHold(button) returns
onLongPress(s, h, pointerCount, x, y, consumed) ==
    LET button == mouseButtonFromPointerCount(pointerCount)
    IN  IF button = BUTTON_UNDEFINED
        THEN s
        ELSE IF ~isIndirectInputMode(s, h)
                /\ screenPointLiesOutsideImageBoundary(s, FromInt(x), FromInt(y))
        THEN s
        ELSE LET s1 == IF ~isIndirectInputMode(s, h)
                       THEN moveCursorToScreenPoint(s, h, FromInt(x), FromInt(y))
                       ELSE s
                 held(s2) ==
                     IF consumed
                     THEN [Emit(s2, <<"showInputFeedback">>)
                              EXCEPT !.hs[h].mIsDragging = TRUE]
                     ELSE s2
             IN  held(Emit(s1, <<"onPressAndHold", button>>))

\* TouchpadListener.onTouch(v, e)
TouchpadListener_onTouch(s, h, e) ==
    LET moved(s1) ==
            IF /\ e.action = "ACTION_MOVE"
               /\ e.pointerCount = 1
               /\ SOURCE_TOUCHPAD \subseteq e.source
            THEN moveCursorByOffset(s1, h, FromInt(0 - 2 * e.relX),
                                           FromInt(0 - 2 * e.relY))
            ELSE s1
    IN  moved(IF e.capture /\ e.action = "ACTION_UP"
              THEN Emit(s, <<"requestPointerCapture">>)
              ELSE s)

\* a button-state diff that reports every button that is down, changed or not
ButtonDiff_EveryDownButton(s, savedBS, currentBS) ==
    LET sent(s1, b, button) ==
            IF b \in currentBS \/ b \in savedBS
            THEN Emit(s1, <<"sendMouseEvent", button, b \in currentBS>>)
            ELSE s1
    IN  sent(sent(sent(s, "BUTTON_PRIMARY", 1), "BUTTON_TERTIARY", 2),
             "BUTTON_SECONDARY", 3)

\* the button-state diff of the two mouse listeners: one sendMouseEvent per
\* changed button, in the order primary, tertiary, secondary
ButtonDiff(s, savedBS, currentBS) ==
    LET changed(b) == (b \in savedBS) # (b \in currentBS)
        sent(s1, b, button) ==
            IF changed(b)
            THEN Emit(s1, <<"sendMouseEvent", button, b \in currentBS>>)
            ELSE s1
    IN  sent(sent(sent(s, "BUTTON_PRIMARY", 1), "BUTTON_TERTIARY", 2),
             "BUTTON_SECONDARY", 3)

\* the absolute positioning of the two mouse listeners
SetCursorToScreenPoint(s, x, y) ==
    LET sent(s1, imagePoint) ==
            IF CursorMoved(s, imagePoint.x, imagePoint.y)
            THEN Emit(s1, <<"sendCursorMove", ToInt(imagePoint.x), ToInt(imagePoint.y)>>)
            ELSE s1
        set(imagePoint) ==
            sent(setCursorPosition(s, imagePoint.x, imagePoint.y), imagePoint)
    IN  set(mapScreenPointToImagePoint(s, FromInt(x), FromInt(y)))

\* HardwareMouseListener.onTouch(v, e)
HardwareMouseListener_onTouch(s, e) ==
    LET handled(s1) ==
            IF e.action = "ACTION_SCROLL"
            THEN Emit(s1, <<"sendMouseWheelEvent", 0 - 100 * e.hscroll,
                                                   0 - 100 * e.vscroll>>)
            ELSE LET s2 == SetCursorToScreenPoint(s1, e.x, e.y)
                     s3 == ButtonDiff(s2, s.hm.savedBS, e.buttonState)
                 IN  [s3 EXCEPT !.hm.savedBS = e.buttonState]
    IN  handled(IF e.capture /\ e.action = "ACTION_UP"
                THEN Emit(s, <<"requestPointerCapture">>)
                ELSE s)

\* DexListener.onTouch(v, e); scroll and tap are what the listener's own
\* GestureDetector reports for the event
DexListener_onTouch(s, e) ==
    LET pos == s.rd.cursorPosition
        tapped(s1) == Emit(Emit(s1, <<"sendMouseEvent", 1, TRUE>>),
                           <<"sendMouseEvent", 1, FALSE>>)
        taps(s2) ==
            IF e.tap = <<1>> THEN tapped(s2)
            ELSE IF e.tap = <<2>> THEN tapped(tapped(s2))
            ELSE s2
        mScroller(s1) ==
            taps(IF e.scroll # <<>>
                 THEN Emit(s1, <<"sendMouseWheelEvent", e.scroll[1], e.scroll[2]>>)
                 ELSE s1)
    IN  CASE e.action \in {"ACTION_BUTTON_PRESS", "ACTION_BUTTON_RELEASE"} ->
               [ButtonDiff(s, s.dex.savedBS, e.buttonState)
                   EXCEPT !.dex.savedBS = e.buttonState]
          [] e.action = "ACTION_HOVER_MOVE" ->
               SetCursorToScreenPoint(s, e.x, e.y)
          [] e.action = "ACTION_DOWN" ->
               IF FLAG_SCROLL \subseteq e.flags
               THEN mScroller([s EXCEPT !.dex.mIsScrolling = TRUE])
               ELSE IF FLAG_DRAG \subseteq e.flags
               THEN Emit([s EXCEPT !.dex.mIsDragging = TRUE],
                         <<"sendMouseEvent", 1, TRUE>>)
               ELSE s
          [] e.action = "ACTION_UP" ->
               LET captured(s1) ==
                       IF e.capture THEN Emit(s1, <<"requestPointerCapture">>) ELSE s1
               IN  captured(IF FLAG_SCROLL \subseteq e.flags
                            THEN [mScroller(s) EXCEPT !.dex.mIsScrolling = FALSE]
                            ELSE IF FLAG_DRAG \subseteq e.flags
                            THEN [Emit(s, <<"sendMouseEvent", 1, FALSE>>)
                                     EXCEPT !.dex.mIsDragging = FALSE]
                            ELSE s)
          [] e.action = "ACTION_MOVE" ->
               IF s.dex.mIsScrolling /\ FLAG_SCROLL \subseteq e.flags
               THEN mScroller(s)
               ELSE IF s.dex.mIsDragging /\ FLAG_DRAG \subseteq e.flags
               THEN SetCursorToScreenPoint(s, e.x, e.y)
               ELSE s
          [] OTHER -> s

\* the pointers left on the device after the event
PointersAfter(e) ==
    IF e.action \in {"ACTION_UP", "ACTION_POINTER_UP"}
    THEN e.pointerCount - 1
    ELSE e.pointerCount

\* handleTouchEvent, lines 174-198, without the switch on the action
FingerEvent_NoSwitch(s, h, e) ==
    LET e1 == IF e.action = "ACTION_DOWN" THEN Point(e.x, e.y) ELSE s.hs[h].e1
        scrolled(s1) ==
            IF e.scroll # <<>>
            THEN onScroll(s1, h, e1, e, e.scroll[1], e.scroll[2])
            ELSE s1
        tapped(s2) ==
            IF e.tap # <<>>
            THEN onTap(s2, h, e.tap[1], e1.x, e1.y, e.consumed)
            ELSE s2
        tracked(s4) ==
            [s4 EXCEPT !.hs[h].pointers = PointersAfter(e),
                       !.hs[h].e1 = IF PointersAfter(e) = 0 THEN Point(0, 0) ELSE e1]
    IN  tracked(TouchpadListener_onTouch(
            tapped(scrolled(Emit(s, <<"onMotionEvent">>))), h, e))

\* handleTouchEvent, lines 174-198: the strategy and the detectors are shown
\* the event, then the handler's own switch on the action
FingerEvent(s, h, e) ==
    LET e1 == IF e.action = "ACTION_DOWN" THEN Point(e.x, e.y) ELSE s.hs[h].e1
        scrolled(s1) ==
            IF e.scroll # <<>>
            THEN onScroll(s1, h, e1, e, e.scroll[1], e.scroll[2])
            ELSE s1
        tapped(s2) ==
            IF e.tap # <<>>
            THEN onTap(s2, h, e.tap[1], e1.x, e1.y, e.consumed)
            ELSE s2
        tracked(s4) ==
            [s4 EXCEPT !.hs[h].pointers = PointersAfter(e),
                       !.hs[h].e1 = IF PointersAfter(e) = 0 THEN Point(0, 0) ELSE e1]
        switched(s5) ==
            CASE e.action = "ACTION_DOWN" ->
                   [s5 EXCEPT !.hs[h].mSuppressCursorMovement = FALSE,
                              !.hs[h].mSwipeCompleted = FALSE,
                              !.hs[h].mIsDragging = FALSE]
              [] e.action = "ACTION_POINTER_DOWN" ->
                   [s5 EXCEPT !.hs[h].mTotalMotionY = 0]
              [] OTHER -> s5
    IN  switched(tracked(TouchpadListener_onTouch(
            tapped(scrolled(Emit(s, <<"onMotionEvent">>))), h, e)))

\* handleTouchEvent that takes every event down the finger path
handleTouchEvent_AllFingers(s, h, event) ==
    FingerEvent(s, h, event)

\* public boolean handleTouchEvent(View view, MotionEvent event)
RECURSIVE handleTouchEvent(_, _, _)
handleTouchEvent(s, h, event) ==
    LET dispatched(s1) ==
            IF event.tool = "TOOL_TYPE_MOUSE"
            THEN HardwareMouseListener_onTouch(s1, event)
            ELSE IF event.tool = "TOOL_TYPE_FINGER"
            THEN IF isDexEvent(event)
                 THEN DexListener_onTouch(s1, event)
                 ELSE IF /\ mTouchpadHandler(h) # <<>>
                         /\ SOURCE_TOUCHPAD \subseteq event.source
                 THEN handleTouchEvent(s1, mTouchpadHandler(h)[1],
                                       [event EXCEPT !.focused = TRUE])
                 ELSE FingerEvent(s1, h, event)
            ELSE s1
    IN  dispatched(IF ~event.focused /\ event.action = "ACTION_DOWN"
                   THEN Emit(s, <<"requestFocus">>)
                   ELSE s)

\* private int mouseButtonFromMotionEvent(MotionEvent e)
mouseButtonFromMotionEvent(e) ==
    CASE e.actionButton = "BUTTON_PRIMARY" -> BUTTON_LEFT
      [] e.actionButton = "BUTTON_SECONDARY" -> BUTTON_RIGHT
      [] e.actionButton = "BUTTON_TERTIARY" -> BUTTON_MIDDLE
      [] OTHER -> BUTTON_UNDEFINED

\* public boolean handleCapturedEvent(View v, MotionEvent e)
handleCapturedEvent(s, h, e) ==
    IF SOURCE_TOUCHPAD \subseteq e.source
    THEN IF mTouchpadHandler(h) # <<>>
         THEN handleTouchEvent(s, mTouchpadHandler(h)[1], e)
         ELSE s
    ELSE LET button == mouseButtonFromMotionEvent(e)
         IN  CASE e.action = "ACTION_MOVE" ->
                    IF e.x = 0 /\ e.y = 0
                    THEN s
                    ELSE moveCursorByOffset(s, h, FromInt(0 - e.x * 2),
                                                  FromInt(0 - e.y * 2))
               [] e.action = "ACTION_BUTTON_PRESS" ->
                    Emit(s, <<"sendMouseDown", button>>)
               [] e.action = "ACTION_BUTTON_RELEASE" ->
                    Emit(s, <<"sendMouseUp", button>>)
               [] e.action = "ACTION_SCROLL" ->
                    Emit(s, <<"sendMouseWheelEvent", 0 - 100 * e.hscroll,
                                                    0 - 100 * e.vscroll>>)
               [] OTHER -> s

---------------------------------------------------------------------------
(* TouchInputHandler.java: the entry points, called on the handler the view *)
(* owns.                                                                    *)

Call_handleClientSizeChanged(sizes) ==
    \E size \in sizes :
        TouchCommit(handleClientSizeChanged(S0, "main", size[1], size[2]),
                    "handleClientSizeChanged", size)

Call_handleHostSizeChanged(sizes) ==
    \E size \in sizes :
        TouchCommit(handleHostSizeChanged(S0, "main", size[1], size[2]),
                    "handleHostSizeChanged", size)

Call_setInputMode(inputModes) ==
    \E inputMode \in inputModes :
        TouchCommit(setInputMode(S0, "main", inputMode),
                    "setInputMode", <<inputMode>>)

\* the handler whose detectors follow the fingers of a device
Dev(source) ==
    IF SOURCE_TOUCHPAD \subseteq source THEN "touchpad" ELSE "main"

Min(a, b) ==
    IF a < b THEN a ELSE b

\* the gesture session of handler h once the event e took s0 to s
Session(s0, s, h, e) ==
    LET old == IF e.action = "ACTION_DOWN" THEN NoSession ELSE s0.hs[h].session
        fired(name) == Cardinality({i \in DOMAIN s.out : s.out[i] = <<name>>})
    IN  [swipeDowns |-> Min(old.swipeDowns + fired("swipeDown"), MaxSwipes),
         swipeUps |-> Min(old.swipeUps + fired("swipeUp"), MaxSwipes),
         crossed |-> \/ old.crossed
                     \/ /\ e.scroll # <<>>
                        /\ e.pointerCount >= 3
                        /\ s.hs[h].mTotalMotionY # s0.hs[h].mTotalMotionY
                        /\ s.hs[h].mTotalMotionY > mSwipeThreshold]

\* A finger event reaches the handler through handleTouchEvent or, while the
\* view holds the pointer capture and the device is a touchpad, through
\* handleCapturedEvent (captured); via is the set of ways open to it.
Finger(e, captured) ==
    LET h == Dev(e.source)
        done(s) ==
            TouchCommit([s EXCEPT !.hs[h].session = Session(S0, s, h, e)],
                        IF captured THEN "handleCapturedEvent" ELSE "handleTouchEvent",
                        <<e.action, h, e.scroll,
                          IF e.tap = <<>> THEN <<>>
                          ELSE <<e.tap[1], handler[h].e1.x, handler[h].e1.y>>,
                          e.isSwiping>>)
    IN  done(IF captured
             THEN handleCapturedEvent(S0, "main", e)
             ELSE handleTouchEvent(S0, "main", e))

\* view and image sizes of the resize notifications while gestures are
\* followed
ViewSizes ==
    {<<MaxDim, MaxDim>>}

ImageSizes ==
    {<<MaxDim, MaxDim>>, <<MaxDim - 1, MaxDim>>}

\* where the first finger of a gesture goes down: inside the pan boundary of
\* the largest image, one pixel inside its right edge on its top row, and
\* one pixel beyond its right edge
DownPoints ==
    {<<1, 1>>, <<MaxDim - 1, 0>>, <<MaxDim + 1, 0>>}

\* relative motions of a mouse or of one finger, in view pixels
Motions ==
    {<<1, 0>>, <<0 - 1, 0>>, <<0, 1>>, <<0, 0 - SwipeStep>>, <<0, SwipeStep>>}

\* finger motions between two events: a pixel sideways with one finger, a
\* swipe step up or down with several
FingerMotions(pointerCount) ==
    IF pointerCount = 1
    THEN {<<1, 0>>, <<0 - 1, 0>>}
    ELSE {<<0, 0 - SwipeStep>>, <<0, SwipeStep>>}

FingerDown(source, via) ==
    \E p \in DownPoints, focused \in BOOLEAN :
        /\ handler[Dev(source)].pointers = 0
        /\ \E captured \in via :
            Finger([MotionEvent("TOOL_TYPE_FINGER", source, "ACTION_DOWN")
                       EXCEPT !.x = p[1], !.y = p[2], !.focused = focused],
                   captured)

FingerPointerDown(source, via) ==
        /\ handler[Dev(source)].pointers \in 1..(MaxPointers - 1)
        /\ \E captured \in via :
            Finger([MotionEvent("TOOL_TYPE_FINGER", source, "ACTION_POINTER_DOWN")
                       EXCEPT !.pointerCount = handler[Dev(source)].pointers + 1],
                   captured)

FingerMove(source, via) ==
    \E m \in FingerMotions(handler[Dev(source)].pointers), scrolled \in BOOLEAN :
        /\ handler[Dev(source)].pointers >= 1
        /\ \E captured \in via,
              isSwiping \in (IF scrolled /\ handler[Dev(source)].pointers = 2
                             THEN BOOLEAN ELSE {FALSE}) :
            Finger([MotionEvent("TOOL_TYPE_FINGER", source, "ACTION_MOVE")
                       EXCEPT !.pointerCount = handler[Dev(source)].pointers,
                              !.x = handler[Dev(source)].e1.x + m[1],
                              !.y = handler[Dev(source)].e1.y + m[2],
                              !.relX = m[1], !.relY = m[2],
                              !.scroll = IF scrolled
                                         THEN <<0 - m[1], 0 - m[2]>>
                                         ELSE <<>>,
                              !.isSwiping = isSwiping],
                   captured)

FingerPointerUp(source, via) ==
        /\ handler[Dev(source)].pointers >= 2
        /\ \E captured \in via :
            Finger([MotionEvent("TOOL_TYPE_FINGER", source, "ACTION_POINTER_UP")
                       EXCEPT !.pointerCount = handler[Dev(source)].pointers],
                   captured)

FingerUp(source, via) ==
    \E capture \in BOOLEAN,
       tap \in {<<>>} \cup {<<n>> : n \in 1..(MaxPointers + 1)}, consumed \in BOOLEAN :
        /\ handler[Dev(source)].pointers = 1
        /\ tap = <<>> => ~consumed
        /\ \E captured \in via :
            Finger([MotionEvent("TOOL_TYPE_FINGER", source, "ACTION_UP")
                       EXCEPT !.capture = capture, !.tap = tap,
                              !.consumed = consumed],
                   captured)

\* the tap detector's timer: GestureListener.onLongPress while fingers rest
LongPress(h) ==
    \E consumed \in BOOLEAN :
        /\ handler[h].pointers >= 1
        /\ TouchCommit(onLongPress(S0, h, handler[h].pointers,
                                   handler[h].e1.x, handler[h].e1.y, consumed),
                       "onLongPress",
                       <<h, handler[h].pointers, handler[h].e1.x, handler[h].e1.y>>)

\* an event of a tool that is neither a mouse nor a finger
StylusEvent ==
    TouchCommit(handleTouchEvent(S0, "main",
                    MotionEvent("TOOL_TYPE_STYLUS", SOURCE_TOUCHSCREEN, "ACTION_MOVE")),
                "handleTouchEvent", <<"ACTION_MOVE", "stylus">>)

MouseEvent ==
    \E action \in {"ACTION_MOVE", "ACTION_UP"},
       p \in {<<0, 0>>, <<1, 1>>, <<MaxCoord, 0>>},
       buttonState \in SUBSET Buttons, capture \in BOOLEAN :
        /\ capture => action = "ACTION_UP"
        /\ TouchCommit(handleTouchEvent(S0, "main",
                        [MotionEvent("TOOL_TYPE_MOUSE", SOURCE_MOUSE, action)
                            EXCEPT !.x = p[1], !.y = p[2],
                                   !.buttonState = buttonState,
                                   !.capture = capture]),
                    "handleTouchEvent",
                    <<action, "mouse", p[1], p[2], buttonState>>)

MouseScroll ==
    \E vscroll \in {0 - 1, 1}, buttonState \in SUBSET Buttons :
        TouchCommit(handleTouchEvent(S0, "main",
                        [MotionEvent("TOOL_TYPE_MOUSE", SOURCE_MOUSE, "ACTION_SCROLL")
                            EXCEPT !.vscroll = vscroll, !.buttonState = buttonState]),
                    "handleTouchEvent", <<"ACTION_SCROLL", "mouse", 0, 0, buttonState>>)

SOURCE_DEX ==
    SOURCE_MOUSE \cup SOURCE_TOUCHSCREEN

Dex(e) ==
    TouchCommit(handleTouchEvent(S0, "main", e), "handleTouchEvent",
                <<e.action, "dex", e.x, e.y>>)

DexButton ==
    \E action \in {"ACTION_BUTTON_PRESS", "ACTION_BUTTON_RELEASE"},
       buttonState \in SUBSET Buttons :
        Dex([MotionEvent("TOOL_TYPE_FINGER", SOURCE_DEX, action)
                EXCEPT !.buttonState = buttonState])

DexHover ==
    \E x \in Xs, y \in Ys :
        Dex([MotionEvent("TOOL_TYPE_FINGER", SOURCE_DEX, "ACTION_HOVER_MOVE")
                EXCEPT !.x = x, !.y = y])

DexTouch ==
    \E action \in {"ACTION_DOWN", "ACTION_MOVE", "ACTION_UP"},
       flags \in {{}, FLAG_DRAG, FLAG_SCROLL}, x \in Xs, y \in Ys,
       scrolled \in BOOLEAN, tap \in {<<>>, <<1>>, <<2>>}, capture \in BOOLEAN :
        /\ scrolled => action = "ACTION_MOVE"
        /\ tap # <<>> => action = "ACTION_UP"
        /\ capture => action = "ACTION_UP"
        /\ action # "ACTION_MOVE" => (x = 0 /\ y = 0)
        /\ Dex([MotionEvent("TOOL_TYPE_FINGER", SOURCE_DEX, action)
                   EXCEPT !.flags = flags, !.x = x, !.y = y,
                          !.scroll = IF scrolled THEN <<0, 1>> ELSE <<>>,
                          !.tap = tap, !.capture = capture])

CapturedMove ==
    \E m \in Motions \cup {<<0, 0>>} :
        TouchCommit(handleCapturedEvent(S0, "main",
                        [MotionEvent("TOOL_TYPE_MOUSE", SOURCE_MOUSE, "ACTION_MOVE")
                            EXCEPT !.x = m[1], !.y = m[2]]),
                    "handleCapturedEvent", <<"ACTION_MOVE", m[1], m[2]>>)

CapturedButton ==
    \E action \in {"ACTION_BUTTON_PRESS", "ACTION_BUTTON_RELEASE", "ACTION_SCROLL"},
       actionButton \in Buttons \cup {""} :
        TouchCommit(handleCapturedEvent(S0, "main",
                        [MotionEvent("TOOL_TYPE_MOUSE", SOURCE_MOUSE, action)
                            EXCEPT !.actionButton = actionButton, !.vscroll = 1]),
                    "handleCapturedEvent", <<action, actionButton>>)

---------------------------------------------------------------------------
(* Specifications of the Java half.                                         *)

\* The coordinate mapper: resize notifications and relative cursor moves.
NextMapper ==
    \/ Call_handleClientSizeChanged(Sizes)
    \/ Call_handleHostSizeChanged(Sizes)
    \/ CapturedMove
    \/ CapturedButton

SpecMapper ==
    Init /\ [][NextMapper]_vars

\* The gesture classifier: resize notifications, the input mode and the
\* fingers on the touchscreen and on a touchpad.
NextGesture ==
    \/ Call_handleClientSizeChanged(ViewSizes)
    \/ Call_handleHostSizeChanged(ImageSizes)
    \/ Call_setInputMode(InputModes)
    \/ FingerDown(SOURCE_TOUCHSCREEN, {FALSE})
    \/ FingerPointerDown(SOURCE_TOUCHSCREEN, {FALSE})
    \/ FingerMove(SOURCE_TOUCHSCREEN, {FALSE})
    \/ FingerPointerUp(SOURCE_TOUCHSCREEN, {FALSE})
    \/ FingerUp(SOURCE_TOUCHSCREEN, {FALSE})
    \/ LongPress("main")
    \/ StylusEvent

SpecGesture ==
    Init /\ [][NextGesture]_vars

\* The nested touchpad handler: resize notifications, the input mode and the
\* fingers on a touchpad.
NextTouchpad ==
    \/ Call_handleClientSizeChanged(ViewSizes)
    \/ Call_handleHostSizeChanged(ImageSizes)
    \/ Call_setInputMode({TRACKPAD, TOUCH})
    \/ FingerDown(SOURCE_TOUCHPAD, {FALSE})
    \/ FingerPointerDown(SOURCE_TOUCHPAD, {FALSE})
    \/ FingerMove(SOURCE_TOUCHPAD, BOOLEAN)
    \/ FingerPointerUp(SOURCE_TOUCHPAD, {FALSE})
    \/ FingerUp(SOURCE_TOUCHPAD, {FALSE})
    \/ LongPress("touchpad")

SpecTouchpad ==
    Init /\ [][NextTouchpad]_vars

\* The hardware mouse: resize notifications and mouse events.
NextMouse ==
    \/ Call_handleClientSizeChanged(ViewSizes)
    \/ Call_handleHostSizeChanged(ImageSizes)
    \/ MouseEvent
    \/ MouseScroll

SpecMouse ==
    Init /\ [][NextMouse]_vars

\* The Dex touchpad: resize notifications and Dex events.
NextDex ==
    \/ Call_handleClientSizeChanged(ViewSizes)
    \/ Call_handleHostSizeChanged(ImageSizes)
    \/ DexButton
    \/ DexHover
    \/ DexTouch

SpecDex ==
    Init /\ [][NextDex]_vars

\* a hardware mouse event at the view point (1, 1): a press, a move or a turn
\* of the wheel, with the primary button down or up
MouseAmongFingers ==
    \E action \in {"ACTION_DOWN", "ACTION_MOVE", "ACTION_SCROLL"},
       buttonState \in {{}, {"BUTTON_PRIMARY"}}, focused \in BOOLEAN :
        /\ ~focused => action = "ACTION_DOWN"
        /\ TouchCommit(handleTouchEvent(S0, "main",
                        [MotionEvent("TOOL_TYPE_MOUSE", SOURCE_MOUSE, action)
                            EXCEPT !.x = 1, !.y = 1, !.buttonState = buttonState,
                                   !.vscroll = 1, !.focused = focused]),
                    "handleTouchEvent", <<action, "mouse", 1, 1>>)

\* The hardware mouse while fingers are on the touchscreen.
NextMouseGesture ==
    \/ Call_handleClientSizeChanged(ViewSizes)
    \/ Call_handleHostSizeChanged({<<MaxDim, MaxDim>>})
    \/ FingerDown(SOURCE_TOUCHSCREEN, {FALSE})
    \/ FingerPointerDown(SOURCE_TOUCHSCREEN, {FALSE})
    \/ FingerMove(SOURCE_TOUCHSCREEN, {FALSE})
    \/ FingerPointerUp(SOURCE_TOUCHSCREEN, {FALSE})
    \/ FingerUp(SOURCE_TOUCHSCREEN, {FALSE})
    \/ LongPress("main")
    \/ MouseAmongFingers

SpecMouseGesture ==
    Init /\ [][NextMouseGesture]_vars

\* The tap detector's two callbacks, with the pointer count, the point and
\* the strategy's answer it may report
Call_onTap ==
    \E pointerCount \in 0..(MaxPointers + 1), p \in DownPoints, consumed \in BOOLEAN :
        TouchCommit(onTap(S0, "main", pointerCount, p[1], p[2], consumed),
                    "onTap", <<"main", pointerCount, p[1], p[2]>>)

Call_onLongPress ==
    \E pointerCount \in 0..(MaxPointers + 1), p \in DownPoints, consumed \in BOOLEAN :
        TouchCommit(onLongPress(S0, "main", pointerCount, p[1], p[2], consumed),
                    "onLongPress", <<"main", pointerCount, p[1], p[2]>>)

\* Taps and long-presses: resize notifications, the input mode and the two
\* callbacks.
NextTap ==
    \/ Call_handleClientSizeChanged(ViewSizes)
    \/ Call_handleHostSizeChanged(ImageSizes)
    \/ Call_setInputMode(InputModes)
    \/ Call_onTap
    \/ Call_onLongPress

SpecTap ==
    Init /\ [][NextTap]_vars

---------------------------------------------------------------------------
(* Specifications of the native half.                                       *)

\* Both threads, the encoder and the server.
NextNative ==
    \/ \E enabled \in BOOLEAN : setClipboardSyncEnabled(enabled)
    \/ Encode
    \/ connect
    \/ server
    \/ handleXEvents

SpecNative ==
    Init /\ [][NextNative]_vars

\* The UI-driven thread alone: connection setup and the protocol encoder.
NextEncoder ==
    \/ \E enabled \in BOOLEAN : setClipboardSyncEnabled(enabled)
    \/ Encode
    \/ connect

SpecEncoder ==
    Init /\ [][NextEncoder]_vars

\* scan codes, platform key codes and flags of the key events: no scan code
\* and two scan codes; AKEYCODE_A, AKEYCODE_ENTER and a key code the table
\* has no key for
ScanCodes ==
    {0, 30, 0 - 1}

KeyCodes ==
    {29, 66, 0}

Keys ==
    \E scan_code \in ScanCodes, key_code \in KeyCodes, key_down \in BOOLEAN :
        sendKeyEvent(scan_code, key_code, key_down)

\* The keyboard: connection setup and key events.
NextKeys ==
    \/ connect
    \/ Keys

SpecKeys ==
    Init /\ [][NextKeys]_vars

\* a tap of one finger at the view point (1, 1), which the strategy does not
\* consume: the tap detector's callback on the UI thread
OneFingerTap ==
    TouchCommit(onTap(S0, "main", 1, 1, 1, FALSE), "onTap", <<"main", 1, 1, 1>>)

\* The UI thread beside the poll thread: connection setup, the five encode
\* entry points and a tap on the UI thread, the poll thread, and a client
\* whose SelectionNotify starts the poll thread's clipboard fetch.
NextStall ==
    \/ sendWindowChange(4, 2)
    \/ sendMouseEvent(1, 1, 1, TRUE, FALSE)
    \/ sendTouchEvent(0 - 1, 0, 1, 1)
    \/ sendKeyEvent(30, 29, TRUE)
    \/ sendUnicodeEvent(65)
    \/ OneFingerTap
    \/ connect
    \/ \E c \in ConnIds : ServerSentSelectionNotify(c)
    \/ handleXEvents

SpecStall ==
    Init /\ [][NextStall]_vars

\* The clipboard exchange: connection setup, the toggle, the server and the
\* poll thread.
NextClipboard ==
    \/ \E enabled \in BOOLEAN : setClipboardSyncEnabled(enabled)
    \/ connect
    \/ server
    \/ handleXEvents

SpecClipboard ==
    Init /\ [][NextClipboard]_vars

---------------------------------------------------------------------------
(* Properties of the native half.                                           *)

\* the connection and clipboard state of android.c and of the objects it owns
ConnectionState ==
    <<conn, xfixes_first_event, err_ctx, win, prop_sel, atom_clipboard,
      clipboard_sync_enabled, conns, ctxs>>

\* C1: a step of handleXEvents that handles a selection-owner-change
\* notification while clipboard sync is disabled issues no selection-conversion
\* request: nothing is queued, nothing is flushed and the server is left with
\* no conversion to answer.
C1_DisabledIssuesNoConversion ==
    [][(/\ call'.op = "handleXEvents"
        /\ call'.args = <<"owner_change">>
        /\ ~clipboard_sync_enabled)
       => /\ wire' = <<>>
          /\ flushes' = 0
          /\ \A c \in ConnIds : /\ conns'[c].outbuf = conns[c].outbuf
                                /\ conns'[c].pending = conns[c].pending]_vars

\* C1 witness: an owner-change notification was just handled with sync disabled.
C1_Witness ==
    /\ call.op = "handleXEvents"
    /\ call.args = <<"owner_change">>
    /\ ~clipboard_sync_enabled
    /\ wire = <<>>

\* C8: while no connection is installed, an encode call sends no request,
\* performs no flush, logs nothing, faults on nothing and leaves the
\* connection and clipboard state as it was.
C8_NoConnectionIsNoOp ==
    [][(conn = NULL /\ call'.op \in EncodeOps)
       => /\ wire' = <<>>
          /\ flushes' = 0
          /\ log' = <<>>
          /\ ~fault'
          /\ UNCHANGED ConnectionState]_vars

\* C8 witness: an encode call has returned with no connection installed.
C8_Witness ==
    /\ conn = NULL
    /\ call.op \in EncodeOps
    /\ clipboard_sync_enabled

\* a live connection is installed
Installed ==
    conn \in ConnIds /\ conns[conn].state = "live"

\* C9 as claimed: when an encode call that emitted a request returns, it has
\* flushed and the installed connection holds no unflushed request.
C9_EveryEncodeCallFlushes ==
    (/\ Installed
     /\ call.op \in EncodeOps
     /\ ~(call.op = "sendTouchEvent" /\ call.args[1] < 0))
    => /\ flushes >= 1
       /\ conns[conn].outbuf = <<>>

\* C9 amended: on a live connection sendWindowChange, sendMouseEvent,
\* sendKeyEvent and sendUnicodeEvent flush exactly once after their request,
\* which leaves nothing unflushed; sendTouchEvent with action >= 0 queues its
\* request and does not flush; sendTouchEvent with action < 0 emits no request
\* and flushes what is queued.
C9_EncodeCallsFlushExceptTouch ==
    (Installed /\ call.op \in EncodeOps)
    => IF call.op = "sendTouchEvent" /\ call.args[1] >= 0
       THEN /\ flushes = 0
            /\ wire = <<>>
            /\ conns[conn].outbuf # <<>>
            /\ conns[conn].outbuf[Len(conns[conn].outbuf)].req = "tx11_touch_event"
       ELSE /\ flushes = 1
            /\ conns[conn].outbuf = <<>>
            /\ IF call.op = "sendTouchEvent"
               THEN \A i \in 1..Len(wire) : wire[i].req = "tx11_touch_event"
               ELSE /\ wire # <<>>
                    /\ wire[Len(wire)].req \in
                         {"tx11_screen_size_change", "tx11_mouse_event",
                          "tx11_key_event", "tx11_unicode_event"}

\* C9 witness: sendTouchEvent returned leaving its request unflushed, on a
\* live connection.
C9_Witness ==
    /\ Installed
    /\ call.op = "sendTouchEvent"
    /\ call.args[1] >= 0
    /\ conns[conn].outbuf # <<>>

\* C10: while connect works on a candidate for which the transport reported
\* a connection-level error, none of its steps installs the candidate,
\* disconnects or replaces the installed connection, frees the error
\* context or issues a negotiation request: setup is abandoned.
C10_ConnectionErrorAbortsSetup ==
    [][(/\ uiPc # "idle"
        /\ new_conn \in ErrConnIds
        /\ call'.op = "connect")
       => /\ conn' = conn
          /\ err_ctx' = err_ctx
          /\ ctxs' = ctxs
          /\ \A c \in ConnIds : conns'[c].state = conns[c].state
          /\ wire' = <<>>
          /\ ~fault'
          /\ uiPc' = "idle"]_vars

\* the negotiation steps of connect, in the order of the code, and the
\* request each of them awaits
NegotiationSteps ==
    <<"query_extension", "query_version", "intern_clipboard", "intern_prop",
      "select_input", "create_window", "flush">>

NegotiationRequests ==
    <<"query_extension", "xfixes_query_version", "intern_atom", "intern_atom",
      "xfixes_select_selection_input", "create_window">>

\* C11: on a working connection every negotiation step of connect hands
\* its request to the transport and passes on to the next step in the order
\* of the code, whatever the answers to the steps before it were; a step
\* answered with a protocol error logs the decoded error, faults on
\* nothing, and leaves the connection installed and live.
C11_ProtocolErrorDoesNotAbortSetup ==
    [][\A i \in 1..6 :
        (/\ call'.op = "connect"
         /\ uiPc = NegotiationSteps[i]
         /\ Installed)
        => /\ wire' # <<>>
           /\ wire'[Len(wire')].req = NegotiationRequests[i]
           /\ uiPc' = NegotiationSteps[i + 1]
           /\ conn' = conn
           /\ conns'[conn].state = "live"
           /\ replyErrors' # replyErrors
                => /\ log' = <<"XCB Error of failed request">>
                   /\ ~fault'
                   /\ err_ctx' = err_ctx
                   /\ ctxs'[err_ctx] = "live"]_vars

\* C11 witness: connect has returned after one of its negotiation steps was
\* answered with a protocol error, and its connection is installed and live.
C11_Witness ==
    /\ call.op = "connect"
    /\ uiPc = "idle"
    /\ replyErrors > 0
    /\ Installed
    /\ ~fault

\* C12: at most one connection object is live at any moment, and a
\* connection object that is live but not yet installed never coexists with
\* a previous connection or error-decoding context that is still live.
C12_AtMostOneLiveConnection ==
    /\ Cardinality({c \in ConnIds : conns[c].state = "live"}) <= 1
    /\ (new_conn \in ConnIds /\ new_conn # conn /\ conns[new_conn].state = "live")
        => /\ conn \in ConnIds => conns[conn].state # "live"
           /\ err_ctx # NULL => ctxs[err_ctx] # "live"

\* C13: no step of handleXEvents polls, sends on or decodes an error with
\* a connection or an error context that has been disconnected or freed.
C13_PollNeverUsesTornDownHandle ==
    ~(call.op = "handleXEvents" /\ fault)

QueriedProperty(long_length) ==
    /\ wire' # <<>>
    /\ wire'[Len(wire')].req = "get_property"
    /\ wire'[Len(wire')].args[5] = long_length

\* C15: the step that takes a selection-notify event queries the property
\* with length zero and waits for the size; the second query is issued only
\* by the step that received the size, and asks for exactly the size
\* received; the clipboard callback is called only by the step that received
\* the reply to the second query, once, with the value of that size.
C15_SizeQueryThenValueQuery ==
    [][/\ (call'.op = "handleXEvents" /\ call'.args = <<"selection_notify">>)
            => /\ QueriedProperty(0)
               /\ pollPc' = "prop_size"
               /\ delivered' = <<>>
       /\ (pollPc' = "prop_size" /\ pollPc # "prop_size")
            => call'.args = <<"selection_notify">>
       /\ (call'.op = "handleXEvents" /\ call'.args = <<"prop_size">>)
            => /\ pollPc = "prop_size"
               /\ delivered' = <<>>
               /\ IF data_size' # 0
                  THEN QueriedProperty(data_size') /\ pollPc' = "prop_value"
                  ELSE wire' = <<>> /\ pollPc' # "prop_value"
       /\ (pollPc' = "prop_value" /\ pollPc # "prop_value")
            => call'.args = <<"prop_size">>
       /\ (call'.op = "handleXEvents" /\ call'.args = <<"prop_value">>)
            => /\ pollPc = "prop_value"
               /\ wire' = <<>>
               /\ data_size # 0
               /\ delivered' \in {<<>>, <<[from |-> conn, size |-> data_size]>>}
       /\ delivered' # <<>> => call'.args = <<"prop_value">>]_vars

\* C15 witness: the reply to the second query has arrived and its value was
\* given to the clipboard callback.
C15_Witness ==
    /\ call.op = "handleXEvents"
    /\ call.args = <<"prop_value">>
    /\ delivered = <<[from |-> conn, size |-> data_size]>>
    /\ data_size = 2

\* C16: when the answer to the zero-length query is a size of zero or a
\* protocol error, the step that receives it issues no second query, gives
\* nothing to the clipboard callback and goes back to polling for the next
\* event; a protocol error always leaves the size zero.
C16_NoContentNoDelivery ==
    [][(call'.op = "handleXEvents" /\ call'.args = <<"prop_size">>)
       => /\ replyErrors' # replyErrors => data_size' = 0
          /\ data_size' = 0
                => /\ wire' = <<>>
                   /\ delivered' = <<>>
                   /\ pollPc' = "poll"
                   /\ \A c \in ConnIds : conns'[c].outbuf = conns[c].outbuf]_vars

\* C16 witness: the zero-length query was answered with a protocol error,
\* which was logged, and the loop is back at polling with nothing sent.
C16_Witness ==
    /\ call.op = "handleXEvents"
    /\ call.args = <<"prop_size">>
    /\ log = <<"XCB Error of failed request">>
    /\ data_size = 0
    /\ pollPc = "poll"
    /\ wire = <<>>
    /\ ~fault

\* C18: the first-event offset, the error context, the proxy window id,
\* the clipboard atom and the transfer-property atom are written only by
\* steps of handleXEvents, on the poll thread; the calls of the UI-driven
\* thread (connect, setClipboardSyncEnabled and the send calls) write only
\* the clipboard enabled flag and the installed connection pointer.
C18_OnlyPollThreadWritesState ==
    [][<<xfixes_first_event, err_ctx, win, atom_clipboard, prop_sel>>'
           # <<xfixes_first_event, err_ctx, win, atom_clipboard, prop_sel>>
       => call'.op = "handleXEvents"]_vars

\* C27: when sendKeyEvent returns on a live connection, the last request
\* on the wire is its one key event, to that connection: its code is the
\* scan code plus 8 when the scan code is not 0 and the table's entry for
\* the key code plus 8 when it is, and its flag is the key_down it was
\* given.
C27_KeyCodePlusEight ==
    (Installed /\ call.op = "sendKeyEvent")
    => LET scan_code == call.args[1]
           key_code == call.args[2]
           key_down == call.args[3]
           code == IF scan_code = 0
                   THEN android_to_linux_keycode(key_code)
                   ELSE scan_code
       IN  /\ wire # <<>>
           /\ wire[Len(wire)] = Req("tx11_key_event", conn, <<code + 8, key_down>>)
           /\ Cardinality({i \in DOMAIN wire : wire[i].req = "tx11_key_event"}) = 1

\* C27 witness: sendKeyEvent(0, AKEYCODE_ENTER, released) has returned on a
\* live connection and KEY_ENTER + 8 = 36, released, is on the wire.
C27_Witness ==
    /\ Installed
    /\ call = Call("sendKeyEvent", <<0, 66, FALSE>>)
    /\ wire # <<>>
    /\ wire[Len(wire)].args = <<36, FALSE>>

PollBlocked ==
    pollPc \in {"prop_size", "prop_value"}

\* C29: while the poll thread waits for a property reply and no connect
\* call is under way on the UI thread, every encode call and the tap
\* callback can be made and return: sendWindowChange, sendMouseEvent,
\* sendKeyEvent, sendUnicodeEvent, the flushing sendTouchEvent and, with
\* room in the output buffer, the queueing sendTouchEvent.
C29_BlockedPollStallsNoCall ==
    (PollBlocked /\ uiPc = "idle" /\ Running)
    => /\ ENABLED sendWindowChange(4, 2)
       /\ ENABLED sendMouseEvent(1, 1, 1, TRUE, FALSE)
       /\ ENABLED sendKeyEvent(30, 29, TRUE)
       /\ ENABLED sendKeyEvent(0, 29, TRUE)
       /\ ENABLED sendUnicodeEvent(65)
       /\ ENABLED sendTouchEvent(0 - 1, 0, 1, 1)
       /\ (conn # NULL => Len(conns[conn].outbuf) < MaxOut)
          => ENABLED sendTouchEvent(0, 0, 1, 1)
       /\ ENABLED OneFingerTap

\* C29 witness: sendMouseEvent has put its request on the wire and returned
\* while the poll thread waits for the answer to its size query.
C29_Witness ==
    /\ PollBlocked
    /\ pollPc = "prop_size"
    /\ call.op = "sendMouseEvent"
    /\ Installed
    /\ wire # <<>>
    /\ wire[Len(wire)].req = "tx11_mouse_event"
    /\ ~fault

\* C30: whenever clipboard text is handed to setClipboardText, the whole
\* fetch behind it ran on one connection: the SelectionNotify was polled, both
\* property queries were sent and both replies were awaited on the connection
\* that is installed at the moment of delivery.  A fetch that a replacement of
\* the connection cut in two delivers nothing.
C30_NoMixedDelivery ==
    delivered # <<>> => fetch = {delivered[1].from}

\* the size was learnt on one connection and the text was read on another
MixedDelivery ==
    /\ delivered # <<>>
    /\ Cardinality(fetch) = 2
    /\ call.op = "handleXEvents"
    /\ ~fault

\* C33: once connect has returned with a working connection installed, the
\* first-event offset, the clipboard atom and the transfer-property atom are
\* the ones the server behind that connection negotiated, whether or not a
\* negotiation step was answered with an error.
C33_NegotiatedOnInstalledConnection ==
    (uiPc = "idle" /\ Installed)
    => /\ xfixes_first_event = FirstEventOf(conn)
       /\ atom_clipboard = ClipboardAtomOf(conn)
       /\ prop_sel = PropAtomOf(conn)

\* connect has returned with the second connection installed, and a conversion
\* request goes out on it for the clipboard atom the first connection negotiated
StaleAtomInRequest ==
    /\ uiPc = "idle"
    /\ Installed
    /\ conn = 2
    /\ atom_clipboard = ClipboardAtomOf(1)
    /\ call.op = "handleXEvents"
    /\ \E i \in 1..Len(wire) :
           /\ wire[i].req = "convert_selection"
           /\ wire[i].to = 2
           /\ wire[i].args[2] = ClipboardAtomOf(1)
    /\ ~fault

\* C34: clipboard text reaches setClipboardText only while sync is enabled: a
\* SelectionNotify that arrives while sync is disabled, and so answers no
\* conversion request that handleXEvents could have issued, delivers nothing.
C34_DeliveryOnlyWhileEnabled ==
    delivered # <<>> => clipboard_sync_enabled

\* text was delivered on the first connection with sync off, no conversion
\* request outstanding and no request answered with an error
UnrequestedDelivery ==
    /\ delivered = <<[from |-> 1, size |-> 2]>>
    /\ fetch = {1}
    /\ ~clipboard_sync_enabled
    /\ conns[1].pending = 0
    /\ replyErrors = 0
    /\ ~fault

---------------------------------------------------------------------------
(* Properties of the Java half.                                             *)

\* f <= g; false when either is NaN
FLe(f, g) ==
    FLt(f, g) \/ FEq(f, g)

\* C2: in every reachable state the cursor position lies inside the image,
\* 0 <= x <= imageWidth and 0 <= y <= imageHeight.
C2_CursorWithinImage ==
    /\ FLe(FromInt(0), cursorPosition.x)
    /\ FLe(cursorPosition.x, FromInt(imageWidth))
    /\ FLe(FromInt(0), cursorPosition.y)
    /\ FLe(cursorPosition.y, FromInt(imageHeight))

\* clamp(v, 0, extent)
Clamp(v, extent) ==
    IF FLt(v, FromInt(0)) THEN FromInt(0)
    ELSE IF FGt(v, FromInt(extent)) THEN FromInt(extent)
    ELSE v

\* C3: moveCursorByOffset(dx, dy) takes the cursor from (x, y) to
\* (clamp(x + dx, 0, imageWidth), clamp(y + dy, 0, imageHeight)).  The call
\* observed is the one handleCapturedEvent makes for a relative mouse motion
\* (mx, my), with dx = -2 * mx and dy = -2 * my.
C3_OffsetMoveClampsToImage ==
    [][(/\ tcall'.op = "handleCapturedEvent"
        /\ tcall'.args[1] = "ACTION_MOVE"
        /\ ~(tcall'.args[2] = 0 /\ tcall'.args[3] = 0))
       => LET dx == FromInt(0 - 2 * tcall'.args[2])
              dy == FromInt(0 - 2 * tcall'.args[3])
          IN  cursorPosition' =
                  Point(Clamp(FAdd(cursorPosition.x, dx), imageWidth),
                        Clamp(FAdd(cursorPosition.y, dy), imageHeight))]_vars

\* C4: in a gesture session, once a scroll callback with three or more
\* pointers has taken the accumulated Y motion past +mSwipeThreshold,
\* exactly one swipe-down and no swipe-up has been fired in the session,
\* whatever follows in it.
C4_OneSwipeDownPerSession ==
    \A h \in Handlers :
        handler[h].session.crossed
            => /\ handler[h].session.swipeDowns = 1
               /\ handler[h].session.swipeUps = 0

\* a session past the threshold in which a further scroll callback with
\* three fingers arrived and fired nothing
C4_Witness ==
    /\ handler["main"].session.crossed
    /\ handler["main"].pointers >= 3
    /\ tcall.op = "handleTouchEvent"
    /\ tcall.args[1] = "ACTION_MOVE"
    /\ tcall.args[3] # <<>>
    /\ \A i \in DOMAIN out : out[i] # <<"swipeDown">>
    /\ handler["main"].mTotalMotionY > mSwipeThreshold

\* the step is a tap of n fingers reported to handler h at the point p
TapStep(h, n, p) ==
    /\ tcall'.op = "handleTouchEvent"
    /\ tcall'.args[1] = "ACTION_UP"
    /\ tcall'.args[2] = h
    /\ tcall'.args[4] = <<n, p[1], p[2]>>

\* the step is a long-press of n fingers reported to handler h at the point p
LongPressStep(h, n, p) ==
    /\ tcall'.op = "onLongPress"
    /\ tcall'.args = <<h, n, p[1], p[2]>>

\* the image point the view point p is mapped to, with the transform held
MappedNow(p) ==
    MapPoint(Invert(transform), FromInt(p[1]), FromInt(p[2]))

Forwarded(outs, name) ==
    \E i \in DOMAIN outs : outs[i][1] = name

\* C5: in direct input mode a tap or a long-press of one to three fingers
\* whose mapped point is (imageWidth + 1, 0) leaves the cursor where it is
\* and does not reach the strategy; a tap whose mapped point is
\* (imageWidth - 1, 0) warps the cursor to that point and reaches the
\* strategy's onTap.
C5_TapOutsideImageRejected ==
    [][\A h \in Handlers, n \in 1..3, p \in DownPoints :
        LET direct == handler[h].mInputStrategy # "Trackpad"
            beyond == Point(FromInt(imageWidth + 1), FromInt(0))
            within == Point(FromInt(imageWidth - 1), FromInt(0))
        IN  /\ (TapStep(h, n, p) /\ direct /\ MappedNow(p) = beyond)
                => /\ cursorPosition' = cursorPosition
                   /\ ~Forwarded(out', "onTap")
                   /\ ~Forwarded(out', "injectCursorMoveEvent")
            /\ (LongPressStep(h, n, p) /\ direct /\ MappedNow(p) = beyond)
                => /\ cursorPosition' = cursorPosition
                   /\ ~Forwarded(out', "onPressAndHold")
                   /\ handler'[h].mIsDragging = handler[h].mIsDragging
            /\ (TapStep(h, n, p) /\ direct /\ MappedNow(p) = within)
                => /\ cursorPosition' = within
                   /\ Forwarded(out', "onTap")]_vars

\* a direct-mode tap just processed whose point maps to (imageWidth + 1, 0)
C5_Witness ==
    /\ tcall.op = "handleTouchEvent"
    /\ tcall.args[1] = "ACTION_UP"
    /\ tcall.args[2] = "main"
    /\ tcall.args[4] # <<>>
    /\ tcall.args[4][1] \in 1..3
    /\ handler["main"].mInputStrategy # "Trackpad"
    /\ imageWidth > 0
    /\ MappedNow(<<tcall.args[4][2], tcall.args[4][3]>>)
           = Point(FromInt(imageWidth + 1), FromInt(0))

\* C6: whenever the four sizes are positive, the transform's scale is
\* (imageWidth / screenWidth, imageHeight / screenHeight).
C6_ScaleIsImageOverScreen ==
    (screenWidth > 0 /\ screenHeight > 0 /\ imageWidth > 0 /\ imageHeight > 0)
        => /\ transform.sx.k = "fin"
           /\ transform.sy.k = "fin"
           /\ transform.sx.n * screenWidth = imageWidth * transform.sx.d
           /\ transform.sy.n * screenHeight = imageHeight * transform.sy.d

\* positive sizes, the image narrower than the view, reached by a resize
\* notification
C6_Witness ==
    /\ tcall.op \in {"handleClientSizeChanged", "handleHostSizeChanged"}
    /\ screenWidth > 0 /\ screenHeight > 0 /\ imageWidth > 0 /\ imageHeight > 0
    /\ imageWidth < screenWidth

\* C7: a resize notification that leaves one of the four sizes zero leaves
\* the transform as it was and divides by no zero (the scale stays finite).
C7_ZeroSizeKeepsTransform ==
    [][(/\ tcall'.op \in {"handleClientSizeChanged", "handleHostSizeChanged"}
        /\ (screenWidth' = 0 \/ screenHeight' = 0
            \/ imageWidth' = 0 \/ imageHeight' = 0))
       => /\ transform' = transform
          /\ transform'.sx.k = "fin"
          /\ transform'.sy.k = "fin"]_vars

\* the step is a scroll callback of n fingers reported to handler h
ScrollStep(h, n) ==
    /\ tcall'.op = "handleTouchEvent"
    /\ tcall'.args[1] = "ACTION_MOVE"
    /\ tcall'.args[2] = h
    /\ tcall'.args[3] # <<>>
    /\ handler[h].pointers = n

\* C17: in a direct input mode a scroll callback of one finger that is not
\* part of a long-press drag leaves the cursor position as it was and makes
\* no cursor-move call, whatever the delta and the state of the session.
C17_DirectScrollKeepsCursor ==
    [][(/\ ScrollStep("main", 1)
        /\ handler["main"].mInputStrategy # "Trackpad"
        /\ ~handler["main"].mIsDragging)
       => /\ cursorPosition' = cursorPosition
          /\ ~Forwarded(out', "injectCursorMoveEvent")
          /\ ~Forwarded(out', "moveCursor")]_vars

\* C17 witness: in Touch mode a one-finger scroll callback of a session that
\* neither drags nor suppresses cursor movement was just handled, with the
\* cursor elsewhere than under the gesture's origin.
C17_Witness ==
    /\ tcall.op = "handleTouchEvent"
    /\ tcall.args[1] = "ACTION_MOVE"
    /\ tcall.args[2] = "main"
    /\ tcall.args[3] # <<>>
    /\ handler["main"].pointers = 1
    /\ handler["main"].mInputStrategy = "Touch"
    /\ ~handler["main"].mIsDragging
    /\ ~handler["main"].mSuppressCursorMovement
    /\ imageWidth > 0
    /\ cursorPosition # MappedNow(<<handler["main"].e1.x, handler["main"].e1.y>>)

\* the positions in outs of the calls of the given name
Calls(outs, name) ==
    {i \in DOMAIN outs : outs[i][1] = name}

\* the origin of the gesture handler h follows lies inside its pan boundary
OriginInsideBounds(h) ==
    Contains(handler[h].mPanGestureBounds, handler[h].e1.x, handler[h].e1.y)

ButtonCalls ==
    {"sendMouseDown", "sendMouseUp", "sendMouseEvent", "sendMouseWheelEvent",
     "onTap", "onPressAndHold"}

\* v lies between 0 and the extent, the range moveCursorByOffset clamps to
WithinExtent(v, extent) ==
    FLe(FromInt(0), v) /\ FLe(v, FromInt(extent))

DirectDragSeen ==
    /\ tcall.op = "handleTouchEvent"
    /\ tcall.args[1] = "ACTION_MOVE"
    /\ tcall.args[2] = "main"
    /\ tcall.args[3] # <<>>
    /\ handler["main"].pointers = 1
    /\ handler["main"].mInputStrategy # "Trackpad"
    /\ handler["main"].mIsDragging
    /\ ~handler["main"].mSuppressCursorMovement
    /\ Calls(out, "injectCursorMoveEvent") # {}

\* the local view inset by the edge slop on all four sides
ViewInsetBounds ==
    Rect(mEdgeSlopInPx, mEdgeSlopInPx,
         screenWidth - mEdgeSlopInPx, screenHeight - mEdgeSlopInPx)

\* C21: a scroll callback of a gesture whose origin lies outside the local
\* view inset by the edge slop fires no swipe, forwards no scroll, leaves
\* the cursor where it is and sets mSuppressCursorMovement; a scroll
\* callback of a gesture whose origin lies inside it gets past the edge
\* test: with two fingers and the swipe detector swiping, its delta is
\* forwarded to the strategy.
C21_EdgeOriginRejected ==
    [][\A n \in 1..MaxPointers :
        LET me == handler["main"]
            inside == Contains(ViewInsetBounds, me.e1.x, me.e1.y)
        IN  ScrollStep("main", n)
            => /\ ~inside
                  => /\ handler'["main"].mSuppressCursorMovement
                     /\ cursorPosition' = cursorPosition
                     /\ \A c \in {"swipeDown", "swipeUp", "onScroll", "moveCursor",
                                  "injectCursorMoveEvent"} : Calls(out', c) = {}
               /\ (inside /\ n = 2 /\ tcall'.args[5])
                  => Calls(out', "onScroll") # {}]_vars

\* a two-finger swiping scroll callback of a gesture that started inside the
\* inset local view was just handled and nothing was forwarded
InsetOriginRejected ==
    /\ tcall.op = "handleTouchEvent"
    /\ tcall.args[1] = "ACTION_MOVE"
    /\ tcall.args[2] = "main"
    /\ tcall.args[3] # <<>>
    /\ tcall.args[5]
    /\ handler["main"].pointers = 2
    /\ Contains(ViewInsetBounds, handler["main"].e1.x, handler["main"].e1.y)
    /\ imageWidth = MaxDim - 1
    /\ Calls(out, "onScroll") = {}


\* the step is handleTouchEvent of a finger event of the given action, which
\* handler h processes
FingerStep(h, action) ==
    /\ tcall'.op = "handleTouchEvent"
    /\ tcall'.args[1] = action
    /\ tcall'.args[2] = h

\* C22: when handleTouchEvent returns from a finger ACTION_DOWN the handler's
\* mSuppressCursorMovement, mSwipeCompleted and mIsDragging are false; when
\* it returns from a finger ACTION_POINTER_DOWN its mTotalMotionY is 0; in
\* both the strategy was shown the event.
C22_PointerDownResets ==
    [][\A h \in Handlers :
        /\ FingerStep(h, "ACTION_DOWN")
           => /\ ~handler'[h].mSuppressCursorMovement
              /\ ~handler'[h].mSwipeCompleted
              /\ ~handler'[h].mIsDragging
              /\ Calls(out', "onMotionEvent") # {}
        /\ FingerStep(h, "ACTION_POINTER_DOWN")
           => /\ handler'[h].mTotalMotionY = 0
              /\ Calls(out', "onMotionEvent") # {}]_vars

\* C22 witness: a finger ACTION_DOWN was just handled by the main handler,
\* after a session that fired a swipe: the strategy saw the event and the
\* three flags are false.
C22_Witness ==
    /\ tcall.op = "handleTouchEvent"
    /\ tcall.args[1] = "ACTION_DOWN"
    /\ tcall.args[2] = "main"
    /\ handler["main"].pointers = 1
    /\ handler["main"].mTotalMotionY # 0
    /\ ~handler["main"].mSuppressCursorMovement
    /\ ~handler["main"].mSwipeCompleted
    /\ ~handler["main"].mIsDragging
    /\ Calls(out, "onMotionEvent") # {}


\* the gesture session state of a handler's fields
SessionState(m) ==
    <<m.mTotalMotionY, m.mIsDragging, m.mSwipeCompleted, m.mSuppressCursorMovement>>

\* C23 as the spec has it: after every finger event that adds or lifts a
\* finger the handler's gesture session state is the one of a new handler.
C23_ResetOnEveryTransition ==
    [][\A h \in Handlers :
        (\E action \in {"ACTION_DOWN", "ACTION_POINTER_DOWN",
                        "ACTION_POINTER_UP", "ACTION_UP"} : FingerStep(h, action))
        => SessionState(handler'[h]) = SessionState(NewHandler)]_vars

\* C23: ACTION_DOWN clears mIsDragging, mSwipeCompleted and
\* mSuppressCursorMovement and keeps mTotalMotionY; ACTION_POINTER_DOWN sets
\* mTotalMotionY to 0 and keeps the three flags; ACTION_POINTER_UP and
\* ACTION_UP keep all four, also when the last finger goes up.  Only an
\* ACTION_POINTER_DOWN and a scroll callback of three or more fingers change
\* mTotalMotionY, so the value a session leaves behind is set to 0 before
\* the next session's swipe test reads it.
C23_ResetAtDownAndPointerDown ==
    [][\A h \in Handlers :
        LET before == SessionState(handler[h])
            after == SessionState(handler'[h])
        IN  /\ FingerStep(h, "ACTION_DOWN")
               => after = <<before[1], FALSE, FALSE, FALSE>>
            /\ FingerStep(h, "ACTION_POINTER_DOWN")
               => after = <<0, before[2], before[3], before[4]>>
            /\ (FingerStep(h, "ACTION_POINTER_UP") \/ FingerStep(h, "ACTION_UP"))
               => after = before
            /\ after[1] # before[1]
               => \/ FingerStep(h, "ACTION_POINTER_DOWN")
                  \/ \E n \in 3..MaxPointers : ScrollStep(h, n)]_vars

\* C23 witness: the last finger just went up and the session it ends leaves
\* its mSuppressCursorMovement, mSwipeCompleted and mTotalMotionY behind.
C23_Witness ==
    /\ tcall.op = "handleTouchEvent"
    /\ tcall.args[1] = "ACTION_UP"
    /\ tcall.args[2] = "main"
    /\ handler["main"].pointers = 0
    /\ handler["main"].mSuppressCursorMovement
    /\ handler["main"].mSwipeCompleted
    /\ handler["main"].mTotalMotionY # 0


\* the strategy setInputMode installs for an input mode
StrategyOf(inputMode) ==
    CASE inputMode = TOUCH -> "Touch"
      [] inputMode = SIMULATED_TOUCH -> "SimulatedTouch"
      [] OTHER -> "Trackpad"

\* C24: setInputMode makes the strategy of its mode the handler's one
\* strategy and changes nothing else: the gesture session state of both
\* handlers, the fingers they follow, the nested handler's strategy, the
\* sizes, the transform and the cursor position stay as they are and no
\* call is made, whether or not fingers are down.
C24_SetInputModeKeepsSession ==
    [][tcall'.op = "setInputMode"
       => /\ handler'["main"].mInputStrategy = StrategyOf(tcall'.args[1])
          /\ handler' = [handler EXCEPT
                            !["main"].mInputStrategy = StrategyOf(tcall'.args[1])]
          /\ \A h \in Handlers :
                SessionState(handler'[h]) = SessionState(handler[h])
          /\ <<screenWidth, screenHeight, imageWidth, imageHeight>>'
                = <<screenWidth, screenHeight, imageWidth, imageHeight>>
          /\ transform' = transform
          /\ cursorPosition' = cursorPosition
          /\ out' = <<>>]_vars

\* C24 witness: setInputMode(TOUCH) just returned in the middle of a gesture
\* of two fingers that has suppressed cursor movement and is dragging.
C24_Witness ==
    /\ tcall.op = "setInputMode"
    /\ tcall.args = <<TOUCH>>
    /\ handler["main"].mInputStrategy = "Touch"
    /\ handler["main"].pointers = 2
    /\ handler["main"].mSuppressCursorMovement
    /\ handler["main"].mIsDragging
    /\ imageWidth > 0


\* the calls the hardware mouse path makes
MouseCalls ==
    {"requestFocus", "requestPointerCapture", "sendMouseWheelEvent",
     "sendCursorMove", "sendMouseEvent"}

\* C25: handleTouchEvent of an event of tool type mouse leaves every field
\* of both handlers as it is: the gesture session state, the fingers the
\* detectors follow and the origin of their gesture.  The strategy is not
\* shown the event (no onMotionEvent), and only calls of the mouse path are
\* made: none of a detector callback.
C25_MouseBypassesGestures ==
    [][(tcall'.op = "handleTouchEvent" /\ tcall'.args[2] = "mouse")
       => /\ handler' = handler
          /\ \A h \in Handlers :
                SessionState(handler'[h]) = SessionState(handler[h])
          /\ Calls(out', "onMotionEvent") = {}
          /\ \A i \in DOMAIN out' : out'[i][1] \in MouseCalls]_vars

\* C25 witness: a hardware mouse press was just handled in the middle of a
\* two-finger gesture that has suppressed cursor movement: the button went
\* to the injector.
C25_Witness ==
    /\ tcall.op = "handleTouchEvent"
    /\ tcall.args[1] = "ACTION_DOWN"
    /\ tcall.args[2] = "mouse"
    /\ handler["main"].pointers = 2
    /\ handler["main"].mSuppressCursorMovement
    /\ handler["main"].mTotalMotionY # 0
    /\ mHMListener.savedBS = {"BUTTON_PRIMARY"}
    /\ Calls(out, "sendMouseEvent") # {}


\* the strategy calls of a tap and of a long-press in outs
ButtonGestureCalls(outs) ==
    Calls(outs, "onTap") \cup Calls(outs, "onPressAndHold")

\* C26: a tap or a long-press of one finger reaches the strategy with the
\* left button, of two with the right and of three with the middle button:
\* no other button reaches it, and in indirect mode the call is made, once.
\* A tap or a long-press of any other pointer count changes nothing: the
\* cursor and the handlers stay as they are and no call is made, neither to
\* the strategy nor for feedback.
C26_ButtonFromPointerCount ==
    [][(tcall'.op \in {"onTap", "onLongPress"})
       => LET n == tcall'.args[2]
              button == CASE n = 1 -> BUTTON_LEFT
                          [] n = 2 -> BUTTON_RIGHT
                          [] n = 3 -> BUTTON_MIDDLE
                          [] OTHER -> BUTTON_UNDEFINED
          IN  IF n \in 1..3
              THEN /\ \A i \in ButtonGestureCalls(out') :
                        out'[i] = <<(IF tcall'.op = "onTap"
                                     THEN "onTap" ELSE "onPressAndHold"), button>>
                   /\ handler["main"].mInputStrategy = "Trackpad"
                      => Cardinality(ButtonGestureCalls(out')) = 1
              ELSE /\ out' = <<>>
                   /\ cursorPosition' = cursorPosition
                   /\ handler' = handler]_vars

\* C26 witness: in Touch mode a long-press of two fingers inside the image
\* was just handled: the cursor went to the point, the strategy got the
\* right button and the drag began.
C26_Witness ==
    /\ tcall.op = "onLongPress"
    /\ tcall.args = <<"main", 2, 1, 1>>
    /\ handler["main"].mInputStrategy = "Touch"
    /\ handler["main"].mIsDragging
    /\ imageWidth > 0
    /\ cursorPosition = MappedNow(<<1, 1>>)
    /\ \E i \in DOMAIN out : out[i] = <<"onPressAndHold", BUTTON_RIGHT>>
    /\ Calls(out, "showInputFeedback") # {}


\* the image point that the transform in force gives for the centre (w/2, h/2)
CentreNow(w, ht) ==
    MapPoint(Invert(transform), FDiv(FromInt(w), FromInt(2)),
                                FDiv(FromInt(ht), FromInt(2)))

\* C31: the cursor re-centring of handleHostSizeChanged(w, h) maps the point
\* (w/2, h/2) with the transform recomputed from the new sizes: every
\* cursor-move event the call injects carries the image point that the
\* transform in force when the call returns gives for (w/2, h/2); none carries
\* the point the transform of the previous sizes gave.
C31_RecentringUsesNewTransform ==
    tcall.op = "handleHostSizeChanged"
    => \A i \in 1..Len(out) :
           out[i][1] = "injectCursorMoveEvent"
           => out[i] = <<"injectCursorMoveEvent",
                         ToInt(CentreNow(tcall.args[1], tcall.args[2]).x),
                         ToInt(CentreNow(tcall.args[1], tcall.args[2]).y)>>

\* handleHostSizeChanged(1, 3) on a 3x3 view that showed a 3x3 image injected
\* a cursor move to (0, 1), the centre under the scale of the 3x3 image
StaleRecentring ==
    /\ tcall = Call("handleHostSizeChanged", <<1, 3>>)
    /\ screenWidth = 3
    /\ screenHeight = 3
    /\ Len(out) > 0
    /\ out[1] = <<"injectCursorMoveEvent", 0, 1>>


\* the pointer events among the calls outs that are for button number n
ButtonEvents(outs, n) ==
    SelectSeq(outs, LAMBDA c : c[1] = "sendMouseEvent" /\ c[2] = n)

\* InputStub button numbers of the MotionEvent button bits
ButtonNumber(b) ==
    CASE b = "BUTTON_PRIMARY" -> 1
      [] b = "BUTTON_TERTIARY" -> 2
      [] b = "BUTTON_SECONDARY" -> 3

\* C32: in every step, for each of the three buttons, one pointer event is
\* sent when the button's bit differs between the button state the listener
\* held before (savedBS) and the one it holds after, with pressed equal to the
\* new bit, and none is sent otherwise; a mouse event other than a scroll
\* makes the listener hold the event's button state, and a scroll leaves the
\* held state alone.  As the listener starts with no button held, the events
\* of each button alternate press, release, press, ..., starting with press.
C32_ButtonEventPerChangedBit ==
    [][/\ \A b \in Buttons :
              ButtonEvents(out', ButtonNumber(b))
                  = IF (b \in mHMListener.savedBS) # (b \in mHMListener'.savedBS)
                    THEN << <<"sendMouseEvent", ButtonNumber(b),
                              b \in mHMListener'.savedBS>> >>
                    ELSE <<>>
       /\ (tcall'.op = "handleTouchEvent" /\ tcall'.args[2] = "mouse")
              => mHMListener'.savedBS
                     = IF tcall'.args[1] = "ACTION_SCROLL"
                       THEN mHMListener.savedBS
                       ELSE tcall'.args[5]
       /\ tcall'.op # "handleTouchEvent"
              => mHMListener'.savedBS = mHMListener.savedBS]_vars

\* one mouse event released the primary button and pressed the secondary one
C32_Witness ==
    /\ tcall.op = "handleTouchEvent"
    /\ tcall.args[2] = "mouse"
    /\ tcall.args[1] = "ACTION_MOVE"
    /\ tcall.args[5] = {"BUTTON_SECONDARY"}
    /\ mHMListener.savedBS = {"BUTTON_SECONDARY"}
    /\ ButtonEvents(out, 1) = << <<"sendMouseEvent", 1, FALSE>> >>
    /\ ButtonEvents(out, 3) = << <<"sendMouseEvent", 3, TRUE>> >>
    /\ ButtonEvents(out, 2) = <<>>


\* C35: while a handler's mSuppressCursorMovement is set, no ACTION_MOVE of
\* its fingers, whatever the scroll callback it brings, the input mode and
\* the pointer count, changes cursorPosition or injects a cursor-move event.
C35_SuppressedCursorStays ==
    [][\A h \in Handlers :
        (/\ tcall'.op = "handleTouchEvent"
         /\ tcall'.args[1] = "ACTION_MOVE"
         /\ tcall'.args[2] = h
         /\ handler[h].mSuppressCursorMovement)
        => /\ cursorPosition' = cursorPosition
           /\ Calls(out', "injectCursorMoveEvent") = {}]_vars

\* a finger ACTION_MOVE was just handled by a handler whose flag is set and
\* stays set, and the call injected a cursor move
MovedWhileSuppressed(h) ==
    /\ tcall.op = "handleTouchEvent"
    /\ tcall.args[1] = "ACTION_MOVE"
    /\ tcall.args[2] = h
    /\ handler[h].mSuppressCursorMovement
    /\ Calls(out, "injectCursorMoveEvent") # {}

\* in Touch mode, after a completed three-finger swipe, a scroll callback of
\* the two fingers left moved the cursor to the origin of the gesture
SwipeThenTwoFingerJump ==
    /\ MovedWhileSuppressed("main")
    /\ handler["main"].mInputStrategy = "Touch"
    /\ handler["main"].mSwipeCompleted
    /\ handler["main"].pointers = 2
    /\ tcall.args[3] # <<>>
    /\ tcall.args[5]

\* on the touchpad, after a completed swipe, the move of one finger moved the
\* cursor by its relative motion
TouchpadMoveWhileSuppressed ==
    /\ MovedWhileSuppressed("touchpad")
    /\ handler["touchpad"].mSwipeCompleted
    /\ handler["touchpad"].pointers = 1


\* C36: whenever the view and the image have positive sizes, no point of the
\* view, 0 <= x <= screenWidth and 0 <= y <= screenHeight, is found to lie
\* outside the image by screenPointLiesOutsideImageBoundary: the point
\* mapScreenPointToImagePoint gives for it is within the image bounds.
C36_ViewPointsMapInsideImage ==
    (screenWidth > 0 /\ screenHeight > 0 /\ imageWidth > 0 /\ imageHeight > 0)
    => \A x \in 0..screenWidth, y \in 0..screenHeight :
           ~screenPointLiesOutsideImageBoundary(S0, FromInt(x), FromInt(y))

\* in Touch mode a one-finger tap at the view point (2, 0) of a 3x3 view that
\* shows a 2x3 image was dropped: it maps to (3, 0), beyond the image
ViewTapRejected ==
    /\ tcall.op = "handleTouchEvent"
    /\ tcall.args[1] = "ACTION_UP"
    /\ tcall.args[2] = "main"
    /\ tcall.args[4] = <<1, 2, 0>>
    /\ handler["main"].mInputStrategy = "Touch"
    /\ screenWidth = 3
    /\ screenHeight = 3
    /\ imageWidth = 2
    /\ imageHeight = 3
    /\ MappedNow(<<2, 0>>) = Point(FromInt(3), FromInt(0))
    /\ ~Forwarded(out, "onTap")
    /\ ~Forwarded(out, "injectCursorMoveEvent")


\* the step is a finger event of a touchpad, which came in through
\* handleTouchEvent or, under pointer capture, through handleCapturedEvent
TouchpadStep ==
    /\ tcall'.op \in {"handleTouchEvent", "handleCapturedEvent"}
    /\ tcall'.args[2] = "touchpad"

\* C37: the nested touchpad handler's strategy is Trackpad after every step,
\* whatever input mode is set on the outer handler, and it has no nested
\* handler of its own.  A finger event of a touchpad is processed by the
\* nested handler: its strategy is shown the event and the outer handler's
\* fields stay as they were.  The nested handler does not reject a gesture
\* for its origin: a two-finger scroll while swiping whose origin lies outside
\* its pan boundary is forwarded to the strategy, and a one-finger scroll from
\* such an origin does not set mSuppressCursorMovement.
C37_TouchpadHandlerStaysTrackpad ==
    [][/\ handler'["touchpad"].mInputStrategy = "Trackpad"
       /\ mTouchpadHandler("touchpad") = <<>>
       /\ TouchpadStep
          => /\ handler'["main"] = handler["main"]
             /\ Calls(out', "onMotionEvent") # {}
       /\ (/\ TouchpadStep
           /\ tcall'.args[3] # <<>>
           /\ ~OriginInsideBounds("touchpad"))
          => /\ (handler["touchpad"].pointers = 2 /\ tcall'.args[5])
                => Calls(out', "onScroll") # {}
             /\ (/\ handler["touchpad"].pointers = 1
                 /\ ~handler["touchpad"].mSuppressCursorMovement)
                => ~handler'["touchpad"].mSuppressCursorMovement]_vars

\* C37 witness: with the outer handler in Touch mode, a two-finger scroll of a
\* touchpad gesture whose origin (2, 0) lies outside the nested handler's pan
\* boundary was just forwarded to the nested handler's Trackpad strategy.
C37_Witness ==
    /\ tcall.op = "handleTouchEvent"
    /\ tcall.args[1] = "ACTION_MOVE"
    /\ tcall.args[2] = "touchpad"
    /\ tcall.args[3] # <<>>
    /\ tcall.args[5]
    /\ handler["main"].mInputStrategy = "Touch"
    /\ handler["touchpad"].mInputStrategy = "Trackpad"
    /\ handler["touchpad"].pointers = 2
    /\ handler["touchpad"].e1 = Point(2, 0)
    /\ handler["touchpad"].mPanGestureBounds = Rect(1, 1, 2, 2)
    /\ Calls(out, "onScroll") # {}
    /\ Calls(out, "onMotionEvent") # {}

===========================================================================
